---- MODULE Spec2Model ----
(***************************************************************************)
(* Model of the resilience layer of my-agent-saas:                         *)
(*   - the circuit breaker   (src/src/lib/circuit-breaker/example.ts)      *)
(*   - the retry orchestrator (src/src/lib/agent-helpers/executeStream.ts) *)
(* The breaker keeps no state of its own: every execute call reads the     *)
(* state record and the request counter from the key/value store, runs the *)
(* wrapped operation and writes the record back.  Each await of the code   *)
(* is one step of the model, so clock ticks (and, in the concurrent        *)
(* specifications, other callers) interleave exactly where the code can be *)
(* suspended.                                                              *)
(***************************************************************************)
EXTENDS Integers, Sequences, FiniteSets, TLC

(***************************************************************************)
(* Bounds of the model.                                                    *)
(***************************************************************************)
MaxFailureThreshold == 2
MaxSuccessThreshold == 2
MaxVolumeThreshold == 2
MaxCalls == 5
MaxTicks == 2
TickMs == 500
NumProcs == 2
MaxRetries == 3
MaxErrors == 3
JitterSteps == 2
MaxConcurrentCalls == 3
MaxScenarioCalls == 6
MaxAdminCalls == 3
MaxAdminOps == 1
MaxLedgerCalls == 4
MaxStatusCalls == 3
MaxLookups == 3
MaxTrialCalls == 3
MaxMixedCalls == 2
MaxMixedAdminOps == 1
HorizonMs == 6000
MaxErrorCalls == 3
MaxDelayAttempt == 3
MaxInitialDelay == 4
MaxMaxDelay == 6

(***************************************************************************)
(* Program constants.                                                      *)
(***************************************************************************)
DefaultFailureThreshold == 5
DefaultSuccessThreshold == 3
DefaultTimeout == 60000
DefaultMonitoringPeriod == 60000
DefaultVolumeThreshold == 10
DefaultHalfOpenMaxAttempts == 3
MsPerSecond == 1000
DefaultMaxRetries == 3
DefaultInitialDelayMs == 100
DefaultMaxDelayMs == 5000
DefaultBackoffMultiplier == 2

\* An optional field that is absent (lastFailureTime?, nextRetryTime?).
Undefined == -1

\* enum CircuitState
CLOSED == "closed"
OPEN == "open"
HALF_OPEN == "half_open"

Procs == 1..NumProcs

VARIABLES
    cfg,          \* the fields the constructor sets
    now,          \* Date.now(), milliseconds
    ticks,        \* number of clock steps taken (bounded)
    kv,           \* the store: key -> [live, val, exp]
    pc,           \* per caller: where its execute call stands
    st,           \* per caller: the local `state` object of execute
    requestCount, \* per caller: what recordRequest returned
    pending,      \* per caller: how fn settled (the local `result` / `error`)
    result,       \* per caller: how execute settled
    calls,        \* history: execute calls started
    readState,    \* history, per caller: the state getState returned
    invoked,      \* history, per caller: invocations of fn in this call
    stateWrites,  \* history, per caller: the records this call put, in order
    checkTime,    \* history, per caller: Date.now() of the shouldAttemptReset check
    settleTime,   \* history, per caller: Date.now() when fn settled
    storeOk,      \* history, per caller: some store call of this call succeeded
    failRun,      \* history: length of the current run of counted CLOSED failures
    trialRun,     \* history: length of the current run of HALF_OPEN trial successes
    afterRun,     \* history, per caller: the call began right after a run opened the breaker
    openNrt,      \* history: nextRetryTime of the last OPEN record put, until a later put
    openNrtAtStart, \* history, per caller: openNrt when the call began
    lastPut,      \* history: who put the state record last, and what
    lastPutAtStart, \* history, per caller: lastPut when the call began
    apc,          \* reset / trip: where the administrative call stands
    ast,          \* trip: the record its getState returned
    adminAt,      \* trip: Date.now() when it computed nextRetryTime
    adminPrior,   \* history: the record persisted when reset / trip was called
    adminOps,     \* number of reset / trip calls made (bounded)
    opts,         \* withRetry: the merged options
    rpc,          \* withRetry: where the call stands
    attempt,      \* withRetry: the loop variable
    lastError,    \* withRetry: the variable lastError
    rresult,      \* withRetry: how the call settled
    events,       \* history of withRetry: what it called, in order
    invokedTotal,   \* history: execute calls that invoked their operation
    succeededTotal, \* history: those whose operation succeeded
    closedStreak, \* history: counted CLOSED failures since the last counted success
    status,       \* getStatus: the object it returned last
    circuitBreakers, \* the registry: name -> instance
    returned,     \* getCircuitBreaker: the instance it returned last, and for which name
    lookups,      \* number of getCircuitBreaker calls made (bounded)
    firstLookup,  \* history, per name: the options of the first lookup and what it returned
    delayArgs,    \* calculateDelay: the arguments of the call
    delayOut      \* calculateDelay: what it returned

breakerVars == <<cfg, now, ticks, kv, pc, st, requestCount, pending, result,
                 calls, readState, invoked, stateWrites, checkTime, settleTime,
                 storeOk, failRun, trialRun, afterRun, openNrt, openNrtAtStart,
                 lastPut, lastPutAtStart>>

adminVars == <<apc, ast, adminAt, adminPrior, adminOps>>

retryVars == <<opts, rpc, attempt, lastError, rresult, events>>

ledgerVars == <<invokedTotal, succeededTotal, closedStreak>>

registryVars == <<circuitBreakers, returned, lookups, firstLookup>>

delayVars == <<delayArgs, delayOut>>

otherVars == <<ledgerVars, status, registryVars, delayVars>>

vars == <<breakerVars, retryVars, adminVars, otherVars>>

(***************************************************************************)
(* Serialisation.                                                          *)
(***************************************************************************)
StateFields == {"state", "failures", "successes", "lastFailureTime",
                "nextRetryTime", "consecutiveSuccesses", "totalRequests"}

\* lastFailureTime?: number; nextRetryTime?: number
OptionalFields == {"lastFailureTime", "nextRetryTime"}

\* Variant of JSON.stringify that drops every optional property whose value
\* is falsy.
JSONstringify_DropsFalsy(s) ==
    [k \in {f \in StateFields :
               f \notin OptionalFields \/ (s[f] # Undefined /\ s[f] # 0)} |-> s[k]]

\* JSON.stringify drops the properties whose value is undefined.
JSONstringify(s) ==
    [k \in {f \in StateFields : f \notin OptionalFields \/ s[f] # Undefined} |-> s[k]]

\* JSON.parse: a property the text does not hold reads as undefined.
JSONparse(str) ==
    [k \in StateFields |-> IF k \in DOMAIN str THEN str[k] ELSE Undefined]

\* Number.prototype.toString: the decimal digits, most significant first.
RECURSIVE toString(_)
toString(n) ==
    IF n < 10 THEN <<n>> ELSE Append(toString(n \div 10), n % 10)

\* parseInt of a string of decimal digits.
RECURSIVE parseInt(_)
parseInt(str) ==
    IF Len(str) = 0 THEN 0
    ELSE 10 * parseInt(SubSeq(str, 1, Len(str) - 1)) + str[Len(str)]

(***************************************************************************)
(* The store.                                                              *)
(***************************************************************************)
getStateKey == "circuit:state"
getRequestsKey == "circuit:requests"
Keys == {getStateKey, getRequestsKey}

NoEntry == [live |-> FALSE, val |-> <<>>, exp |-> 0]

\* expirationTtl: this.monitoringPeriod / 1000, in seconds
expirationTtl == cfg.monitoringPeriod \div MsPerSecond

\* kv.put(key, value, {expirationTtl}): the entry lives expirationTtl seconds.
kvPut(store, key, value) ==
    [store EXCEPT ![key] = [live |-> TRUE, val |-> value,
                            exp |-> now + expirationTtl * MsPerSecond]]

\* The store drops an entry once its expiration time is reached.
kvExpire(store, t) ==
    [k \in Keys |-> IF store[k].live /\ store[k].exp <= t THEN NoEntry ELSE store[k]]

(***************************************************************************)
(* CircuitBreaker: constructor and the pure parts of its methods.          *)
(***************************************************************************)
\* options.x || d : 0 and undefined are both falsy
OrDefault(v, d) == IF v = 0 THEN d ELSE v

Constructor(o) ==
    [failureThreshold |-> OrDefault(o.failureThreshold, DefaultFailureThreshold),
     successThreshold |-> OrDefault(o.successThreshold, DefaultSuccessThreshold),
     timeout          |-> OrDefault(o.timeout, DefaultTimeout),
     monitoringPeriod |-> OrDefault(o.monitoringPeriod, DefaultMonitoringPeriod),
     volumeThreshold  |-> OrDefault(o.volumeThreshold, DefaultVolumeThreshold)]

\* The record getState returns when the key is absent or the store fails.
DefaultState ==
    [state |-> CLOSED, failures |-> 0, successes |-> 0,
     lastFailureTime |-> Undefined, nextRetryTime |-> Undefined,
     consecutiveSuccesses |-> 0, totalRequests |-> 0]

\* getState with the store answering: the parsed record, or the default.
getState ==
    IF kv[getStateKey].live THEN JSONparse(kv[getStateKey].val) ELSE DefaultState

\* recordRequest, after kv.get answered: currentCount ? parseInt(currentCount) + 1 : 1
nextCount ==
    IF kv[getRequestsKey].live /\ Len(kv[getRequestsKey].val) > 0
    THEN parseInt(kv[getRequestsKey].val) + 1
    ELSE 1

\* Variant of shouldAttemptReset that waits until nextRetryTime has passed.
shouldAttemptReset_Strict(s) ==
    IF s.state # OPEN THEN FALSE
    ELSE IF s.nextRetryTime # Undefined /\ s.nextRetryTime # 0
         THEN now > s.nextRetryTime
         ELSE FALSE

\* shouldAttemptReset: OPEN, nextRetryTime truthy and reached.
shouldAttemptReset(s) ==
    IF s.state # OPEN THEN FALSE
    ELSE IF s.nextRetryTime # Undefined /\ s.nextRetryTime # 0
         THEN now >= s.nextRetryTime
         ELSE FALSE

\* Variant of the volume gate that also lets the call whose count equals the
\* threshold through.
belowVolume_Inclusive(count, s) ==
    count <= cfg.volumeThreshold /\ s.state = CLOSED

\* Variant of the volume gate that does not look at the state.
belowVolume_AnyState(count, s) ==
    count < cfg.volumeThreshold

\* execute: the volume gate.
belowVolume(count, s) ==
    count < cfg.volumeThreshold /\ s.state = CLOSED

\* Variant of the OPEN -> HALF_OPEN transition that resets the trial counter
\* and leaves the state as it was.
toHalfOpen_KeepsState(s) ==
    [s EXCEPT !.consecutiveSuccesses = 0]

\* execute: the OPEN -> HALF_OPEN transition.
toHalfOpen(s) ==
    [s EXCEPT !.state = HALF_OPEN, !.consecutiveSuccesses = 0]

\* executeInClosedState, fn resolved: is the record written?
closedSuccessWrites(s) == s.failures > 0

\* Variant of closedSuccess that leaves the failure count.
closedSuccess_KeepsFailures(s) ==
    [s EXCEPT !.successes = s.successes + 1,
              !.totalRequests = s.totalRequests + 1]

closedSuccess(s) ==
    [s EXCEPT !.failures = 0,
              !.successes = s.successes + 1,
              !.totalRequests = s.totalRequests + 1]

\* Variant of closedFailure that opens only above the threshold.
closedFailure_StrictThreshold(s) ==
    LET f == s.failures + 1
        s1 == [s EXCEPT !.failures = f,
                        !.lastFailureTime = now,
                        !.totalRequests = s.totalRequests + 1]
    IN  IF f > cfg.failureThreshold
        THEN [s1 EXCEPT !.state = OPEN, !.nextRetryTime = now + cfg.timeout]
        ELSE s1

\* executeInClosedState, fn rejected.
closedFailure(s) ==
    LET f == s.failures + 1
        s1 == [s EXCEPT !.failures = f,
                        !.lastFailureTime = now,
                        !.totalRequests = s.totalRequests + 1]
    IN  IF f >= cfg.failureThreshold
        THEN [s1 EXCEPT !.state = OPEN, !.nextRetryTime = now + cfg.timeout]
        ELSE s1

\* Variant of halfOpenSuccess that closes only above the threshold.
halfOpenSuccess_StrictThreshold(s) ==
    LET c == s.consecutiveSuccesses + 1
        s1 == [s EXCEPT !.consecutiveSuccesses = c,
                        !.successes = s.successes + 1,
                        !.totalRequests = s.totalRequests + 1]
    IN  IF c > cfg.successThreshold
        THEN [s1 EXCEPT !.state = CLOSED, !.failures = 0,
                        !.consecutiveSuccesses = 0]
        ELSE s1

\* executeInHalfOpenState, fn resolved.
halfOpenSuccess(s) ==
    LET c == s.consecutiveSuccesses + 1
        s1 == [s EXCEPT !.consecutiveSuccesses = c,
                        !.successes = s.successes + 1,
                        !.totalRequests = s.totalRequests + 1]
    IN  IF c >= cfg.successThreshold
        THEN [s1 EXCEPT !.state = CLOSED, !.failures = 0,
                        !.consecutiveSuccesses = 0]
        ELSE s1

\* Variant of halfOpenFailure that gives credit for earlier trial successes:
\* it reopens only when there were none.
halfOpenFailure_PartialCredit(s) ==
    IF s.consecutiveSuccesses > 0
    THEN [s EXCEPT !.failures = s.failures + 1,
                   !.consecutiveSuccesses = s.consecutiveSuccesses - 1,
                   !.lastFailureTime = now,
                   !.totalRequests = s.totalRequests + 1]
    ELSE [s EXCEPT !.state = OPEN,
                   !.failures = s.failures + 1,
                   !.consecutiveSuccesses = 0,
                   !.lastFailureTime = now,
                   !.nextRetryTime = now + cfg.timeout,
                   !.totalRequests = s.totalRequests + 1]

\* Variant of halfOpenFailure that does not count the request.
halfOpenFailure_Uncounted(s) ==
    [s EXCEPT !.state = OPEN,
              !.failures = s.failures + 1,
              !.consecutiveSuccesses = 0,
              !.lastFailureTime = now,
              !.nextRetryTime = now + cfg.timeout]

\* executeInHalfOpenState, fn rejected.
halfOpenFailure(s) ==
    [s EXCEPT !.state = OPEN,
              !.failures = s.failures + 1,
              !.consecutiveSuccesses = 0,
              !.lastFailureTime = now,
              !.nextRetryTime = now + cfg.timeout,
              !.totalRequests = s.totalRequests + 1]


(***************************************************************************)
(* Outcomes of the wrapped operation and of execute.                       *)
(***************************************************************************)
NoResult == [kind |-> "none", val |-> "", origin |-> "none"]

\* What fn can do: resolve with a value or reject with an error.
FnOutcomes ==
    {[kind |-> "value", val |-> "ok", origin |-> "fn"],
     [kind |-> "error", val |-> "E1", origin |-> "fn"]}

\* this.name, the name the breaker was constructed with
name == "payment-api"

\* new Error(`Circuit breaker is OPEN for ${this.name}. Service is unavailable.`)
OpenError ==
    [kind |-> "error",
     val |-> "Circuit breaker is OPEN for " \o name \o ". Service is unavailable.",
     origin |-> "breaker"]

\* Variant of the catch blocks that wraps the operation's error in an error
\* of the breaker.
settleAs_Wrapped(out) ==
    IF out.kind = "error"
    THEN [kind |-> "error", val |-> "Circuit breaker call failed for " \o name,
          origin |-> "breaker"]
    ELSE out

\* return result; / throw error; : execute settles as fn did
settleAs(out) == out

Idle(p) == pc[p] \in {"idle", "done"}
InFn(p) == pc[p] \in {"passFn", "closedFn", "halfFn"}

(***************************************************************************)
(* History bookkeeping (no effect on the program's state).                 *)
(***************************************************************************)
\* consecutiveSuccesses of the local state when a trial was dispatched
dispatchCs(p) ==
    IF readState[p].state = OPEN THEN 0 ELSE readState[p].consecutiveSuccesses

\* the run of counted CLOSED failures after caller p's call completed
failRunAfter(p, how, out) ==
    IF how = "closedPut" /\ out.kind = "error"
    THEN IF readState[p].failures = 0 THEN 1
         ELSE IF failRun > 0 THEN failRun + 1 ELSE 0
    ELSE 0

\* the run of HALF_OPEN trial successes after caller p's call completed
trialRunAfter(p, how, out) ==
    IF how = "halfPut" /\ out.kind = "value"
    THEN IF dispatchCs(p) = 0 THEN 1
         ELSE IF trialRun > 0 THEN trialRun + 1 ELSE 0
    ELSE 0

openNrtAfter(rec) == IF rec.state = OPEN THEN rec.nextRetryTime ELSE Undefined

\* no state record put so far
NoPut == [how |-> "none", by |-> 0, rec |-> DefaultState]

\* caller p's call settles with out, having come through step `how`
Complete(p, how, out) ==
    /\ pc' = [pc EXCEPT ![p] = "done"]
    /\ result' = [result EXCEPT ![p] = out]
    /\ failRun' = failRunAfter(p, how, out)
    /\ trialRun' = trialRunAfter(p, how, out)

(***************************************************************************)
(* execute, one step per await.                                            *)
(***************************************************************************)
\* const state = await this.getState();
GetStateStep(p) ==
    /\ Idle(p)
    /\ calls' = calls + 1
    /\ pc' = [pc EXCEPT ![p] = "recordGet"]
    /\ st' = [st EXCEPT ![p] = getState]
    /\ readState' = [readState EXCEPT ![p] = getState]
    /\ requestCount' = [requestCount EXCEPT ![p] = 0]
    /\ pending' = [pending EXCEPT ![p] = NoResult]
    /\ result' = [result EXCEPT ![p] = NoResult]
    /\ invoked' = [invoked EXCEPT ![p] = 0]
    /\ stateWrites' = [stateWrites EXCEPT ![p] = <<>>]
    /\ checkTime' = [checkTime EXCEPT ![p] = Undefined]
    /\ settleTime' = [settleTime EXCEPT ![p] = Undefined]
    /\ storeOk' = [storeOk EXCEPT ![p] = TRUE]
    /\ afterRun' = [afterRun EXCEPT ![p] = failRun >= cfg.failureThreshold]
    /\ openNrtAtStart' = [openNrtAtStart EXCEPT ![p] = openNrt]
    /\ lastPutAtStart' = [lastPutAtStart EXCEPT ![p] = lastPut]
    /\ UNCHANGED <<cfg, now, ticks, kv, failRun, trialRun, openNrt, lastPut>>

\* recordRequest: const currentCount = await kv.get(key); count = ...
RecordGet(p) ==
    /\ pc[p] = "recordGet"
    /\ pc' = [pc EXCEPT ![p] = "recordPut"]
    /\ requestCount' = [requestCount EXCEPT ![p] = nextCount]
    /\ storeOk' = [storeOk EXCEPT ![p] = TRUE]
    /\ UNCHANGED <<cfg, now, ticks, kv, st, pending, result, calls, readState,
                   invoked, stateWrites, checkTime, settleTime, failRun,
                   trialRun, afterRun, openNrt, lastPut, openNrtAtStart, lastPutAtStart>>

\* the switch of execute on state.state (default: as CLOSED)
Switch(p, s) ==
    IF s.state = OPEN
    THEN /\ Complete(p, "reject", OpenError)
         /\ UNCHANGED invoked
    ELSE /\ pc' = [pc EXCEPT ![p] = IF s.state = HALF_OPEN THEN "halfFn" ELSE "closedFn"]
         /\ invoked' = [invoked EXCEPT ![p] = @ + 1]
         /\ UNCHANGED <<result, failRun, trialRun>>

\* execute from the return of recordRequest (count) to its next await
AfterRecord(p, count) ==
    /\ requestCount' = [requestCount EXCEPT ![p] = count]
    /\ checkTime' = [checkTime EXCEPT ![p] = now]
    /\ IF belowVolume(count, st[p])
       THEN /\ pc' = [pc EXCEPT ![p] = "passFn"]
            /\ invoked' = [invoked EXCEPT ![p] = @ + 1]
            /\ UNCHANGED <<st, result, failRun, trialRun>>
       ELSE IF shouldAttemptReset(st[p])
       THEN /\ pc' = [pc EXCEPT ![p] = "resetPut"]
            /\ st' = [st EXCEPT ![p] = toHalfOpen(@)]
            /\ UNCHANGED <<invoked, result, failRun, trialRun>>
       ELSE /\ Switch(p, st[p])
            /\ UNCHANGED st

\* recordRequest: await kv.put(key, count.toString(), ...); return count
RecordPut(p) ==
    /\ pc[p] = "recordPut"
    /\ kv' = kvPut(kv, getRequestsKey, toString(requestCount[p]))
    /\ storeOk' = [storeOk EXCEPT ![p] = TRUE]
    /\ AfterRecord(p, requestCount[p])
    /\ UNCHANGED <<cfg, now, ticks, pending, calls, readState, stateWrites,
                   settleTime, afterRun, openNrt, lastPut, openNrtAtStart, lastPutAtStart>>

\* setState(state): await kv.put(stateKey, JSON.stringify(state), ...)
setState(p) ==
    /\ kv' = kvPut(kv, getStateKey, JSONstringify(st[p]))
    /\ stateWrites' = [stateWrites EXCEPT ![p] = Append(@, st[p])]
    /\ openNrt' = openNrtAfter(st[p])
    /\ lastPut' = [how |-> pc[p], by |-> p, rec |-> st[p]]
    /\ storeOk' = [storeOk EXCEPT ![p] = TRUE]

\* execute: await this.setState(state) of the OPEN -> HALF_OPEN transition
ResetPut(p) ==
    /\ pc[p] = "resetPut"
    /\ setState(p)
    /\ Switch(p, st[p])
    /\ UNCHANGED <<cfg, now, ticks, st, requestCount, pending, calls, readState,
                   checkTime, settleTime, afterRun, openNrtAtStart, lastPutAtStart>>

\* the local state after fn settled with out in step `where`
afterFn(where, s, out) ==
    IF where = "closedFn"
    THEN IF out.kind = "value"
         THEN IF closedSuccessWrites(s) THEN closedSuccess(s) ELSE s
         ELSE closedFailure(s)
    ELSE IF where = "halfFn"
    THEN IF out.kind = "value" THEN halfOpenSuccess(s) ELSE halfOpenFailure(s)
    ELSE s

\* Variant in which every path writes the record after fn settled.
writesAfterFn_Always(where, s, out) == TRUE

\* does the path write the record after fn settled?
writesAfterFn(where, s, out) ==
    IF where = "closedFn" THEN out.kind = "error" \/ closedSuccessWrites(s)
    ELSE where = "halfFn"

\* await fn() settles: pass-through, executeInClosedState, executeInHalfOpenState
FnSettle(p, out) ==
    /\ InFn(p)
    /\ settleTime' = [settleTime EXCEPT ![p] = now]
    /\ st' = [st EXCEPT ![p] = afterFn(pc[p], @, out)]
    /\ pending' = [pending EXCEPT ![p] = out]
    /\ IF writesAfterFn(pc[p], st[p], out)
       THEN /\ pc' = [pc EXCEPT ![p] = IF pc[p] = "closedFn" THEN "closedPut" ELSE "halfPut"]
            /\ UNCHANGED <<result, failRun, trialRun>>
       ELSE Complete(p, pc[p], settleAs(out))
    /\ UNCHANGED <<cfg, now, ticks, kv, requestCount, calls, readState, invoked,
                   stateWrites, checkTime, storeOk, afterRun, openNrt, lastPut,
                   openNrtAtStart, lastPutAtStart>>

\* await this.setState(state); return result / throw error
FinalPut(p) ==
    /\ pc[p] \in {"closedPut", "halfPut"}
    /\ setState(p)
    /\ Complete(p, pc[p], settleAs(pending[p]))
    /\ UNCHANGED <<cfg, now, ticks, st, requestCount, pending, calls, readState,
                   invoked, checkTime, settleTime, afterRun, openNrtAtStart, lastPutAtStart>>

(***************************************************************************)
(* The clock.  Time passes by a short step, by the cool-down or by the     *)
(* records' time to live; the store drops what has expired.                *)
(***************************************************************************)
TickDurations == {TickMs, cfg.timeout, expirationTtl * MsPerSecond}

\* d milliseconds pass
Elapse(d) ==
    /\ now' = now + d
    /\ kv' = kvExpire(kv, now + d)
    /\ failRun' = IF kv'[getStateKey].live THEN failRun ELSE 0
    /\ trialRun' = IF kv'[getStateKey].live THEN trialRun ELSE 0
    /\ UNCHANGED <<cfg, pc, st, requestCount, pending, result, calls, readState,
                   invoked, stateWrites, checkTime, settleTime, storeOk,
                   afterRun, openNrt, lastPut, openNrtAtStart, lastPutAtStart>>

Tick(d) ==
    /\ ticks < MaxTicks
    /\ ticks' = ticks + 1
    /\ Elapse(d)

(***************************************************************************)
(* Specification of one caller at a time, the store reachable.             *)
(***************************************************************************)
\* (timeout, monitoringPeriod) as passed to the constructor; 0: not passed
TimingOptions == {<<2 * TickMs, 4 * TickMs>>, <<4 * TickMs, 2 * TickMs>>, <<0, 0>>}

BreakerOptions ==
    {[failureThreshold |-> f, successThreshold |-> s, volumeThreshold |-> v,
      timeout |-> t[1], monitoringPeriod |-> t[2]] :
        f \in {1, MaxFailureThreshold}, s \in {1, MaxSuccessThreshold},
        v \in {1, MaxVolumeThreshold}, t \in TimingOptions}

\* no execute call made, the store empty
BreakerIdle ==
    /\ now = 0
    /\ ticks = 0
    /\ kv = [k \in Keys |-> NoEntry]
    /\ pc = [p \in Procs |-> "idle"]
    /\ st = [p \in Procs |-> DefaultState]
    /\ requestCount = [p \in Procs |-> 0]
    /\ pending = [p \in Procs |-> NoResult]
    /\ result = [p \in Procs |-> NoResult]
    /\ calls = 0
    /\ readState = [p \in Procs |-> DefaultState]
    /\ invoked = [p \in Procs |-> 0]
    /\ stateWrites = [p \in Procs |-> <<>>]
    /\ checkTime = [p \in Procs |-> Undefined]
    /\ settleTime = [p \in Procs |-> Undefined]
    /\ storeOk = [p \in Procs |-> FALSE]
    /\ failRun = 0
    /\ trialRun = 0
    /\ afterRun = [p \in Procs |-> FALSE]
    /\ openNrt = Undefined
    /\ openNrtAtStart = [p \in Procs |-> Undefined]
    /\ lastPut = NoPut
    /\ lastPutAtStart = [p \in Procs |-> NoPut]

InitWith(options) ==
    /\ cfg \in {Constructor(o) : o \in options}
    /\ BreakerIdle

\* reset and trip not called
AdminIdle ==
    /\ apc = "idle"
    /\ ast = DefaultState
    /\ adminAt = Undefined
    /\ adminPrior = DefaultState
    /\ adminOps = 0

\* no operation counted
LedgerIdle ==
    /\ invokedTotal = 0
    /\ succeededTotal = 0
    /\ closedStreak = 0

NoStatus == [name |-> ""]

NoInstance == [id |-> 0]

NoReturn == [for |-> "", instance |-> NoInstance]

NoLookup == [called |-> FALSE]

RegistryNames == {"payment-api", "database"}

\* const circuitBreakers = new Map<string, CircuitBreaker>()
RegistryIdle ==
    /\ circuitBreakers = [n \in RegistryNames |-> NoInstance]
    /\ returned = NoReturn
    /\ lookups = 0
    /\ firstLookup = [n \in RegistryNames |-> NoLookup]

NoDelayArgs == <<>>

\* calculateDelay not called
DelayIdle ==
    /\ delayArgs = NoDelayArgs
    /\ delayOut = Undefined

\* getStatus, getCircuitBreaker and calculateDelay not called on their own
OtherIdle ==
    /\ LedgerIdle
    /\ status = NoStatus
    /\ RegistryIdle
    /\ DelayIdle

\* withRetry not called
RetryIdle ==
    /\ opts = [maxRetries |-> [kind |-> "number", n |-> DefaultMaxRetries],
               initialDelayMs |-> DefaultInitialDelayMs,
               maxDelayMs |-> DefaultMaxDelayMs,
               backoffMultiplier |-> DefaultBackoffMultiplier,
               onRetry |-> "none"]
    /\ rpc = "idle"
    /\ attempt = 0
    /\ lastError = Undefined
    /\ rresult = NoResult
    /\ events = <<>>

Init == InitWith(BreakerOptions) /\ RetryIdle /\ AdminIdle /\ OtherIdle

Next ==
    /\ UNCHANGED <<retryVars, adminVars, otherVars>>
    /\ \/ calls < MaxCalls /\ GetStateStep(1)
       \/ RecordGet(1)
       \/ RecordPut(1)
       \/ ResetPut(1)
       \/ \E out \in FnOutcomes : FnSettle(1, out)
       \/ FinalPut(1)
       \/ \E d \in TickDurations : Tick(d)

Spec == Init /\ [][Next]_vars


(***************************************************************************)
(* The store failing: every kv call sits in a try/catch of its method.     *)
(***************************************************************************)
\* getState, catch: "Return closed state as fallback"
getStateFallback == DefaultState

\* recordRequest, catch: return 0
recordRequestFallback == 0

\* Variant of setState without its try/catch: the store's error rejects execute.
setStateCatch_Rethrows(out) ==
    [kind |-> "error", val |-> "KV put failed", origin |-> "store"]

\* setState, catch: the error is logged and swallowed; the caller goes on
\* to deliver the outcome it had
setStateCatch(out) == out

\* const state = await this.getState(); with getKV() or kv.get throwing
GetStateFail(p) ==
    /\ Idle(p)
    /\ calls' = calls + 1
    /\ pc' = [pc EXCEPT ![p] = "recordGet"]
    /\ st' = [st EXCEPT ![p] = getStateFallback]
    /\ readState' = [readState EXCEPT ![p] = getStateFallback]
    /\ requestCount' = [requestCount EXCEPT ![p] = 0]
    /\ pending' = [pending EXCEPT ![p] = NoResult]
    /\ result' = [result EXCEPT ![p] = NoResult]
    /\ invoked' = [invoked EXCEPT ![p] = 0]
    /\ stateWrites' = [stateWrites EXCEPT ![p] = <<>>]
    /\ checkTime' = [checkTime EXCEPT ![p] = Undefined]
    /\ settleTime' = [settleTime EXCEPT ![p] = Undefined]
    /\ storeOk' = [storeOk EXCEPT ![p] = FALSE]
    /\ afterRun' = [afterRun EXCEPT ![p] = FALSE]
    /\ openNrtAtStart' = [openNrtAtStart EXCEPT ![p] = openNrt]
    /\ lastPutAtStart' = [lastPutAtStart EXCEPT ![p] = lastPut]
    /\ UNCHANGED <<cfg, now, ticks, kv, failRun, trialRun, openNrt, lastPut>>

\* recordRequest with kv.get throwing (step recordGet) or kv.put throwing
\* (step recordPut): nothing is stored and the count is the fallback
RecordFail(p) ==
    /\ pc[p] \in {"recordGet", "recordPut"}
    /\ AfterRecord(p, recordRequestFallback)
    /\ UNCHANGED <<cfg, now, ticks, kv, pending, calls, readState, stateWrites,
                   settleTime, storeOk, afterRun, openNrt, lastPut, openNrtAtStart, lastPutAtStart>>

\* the setState of the OPEN -> HALF_OPEN transition with kv.put throwing
ResetPutFail(p) ==
    /\ pc[p] = "resetPut"
    /\ Switch(p, st[p])
    /\ UNCHANGED <<cfg, now, ticks, kv, st, requestCount, pending, calls,
                   readState, stateWrites, checkTime, settleTime, storeOk,
                   afterRun, openNrt, lastPut, openNrtAtStart, lastPutAtStart>>

\* the setState after fn settled with kv.put throwing
FinalPutFail(p) ==
    /\ pc[p] \in {"closedPut", "halfPut"}
    /\ Complete(p, "putFailed", setStateCatch(settleAs(pending[p])))
    /\ UNCHANGED <<cfg, now, ticks, kv, st, requestCount, pending, calls,
                   readState, invoked, stateWrites, checkTime, settleTime,
                   storeOk, afterRun, openNrt, lastPut, openNrtAtStart, lastPutAtStart>>

\* The options of the faulty-store specification.
FaultyOptions ==
    {[failureThreshold |-> f, successThreshold |-> 1, volumeThreshold |-> v,
      timeout |-> 2 * TickMs, monitoringPeriod |-> 4 * TickMs] :
        f \in {1, MaxFailureThreshold}, v \in {1, MaxVolumeThreshold}}

InitFaulty == InitWith(FaultyOptions) /\ RetryIdle /\ AdminIdle /\ OtherIdle

NextFaulty ==
    /\ UNCHANGED <<retryVars, adminVars, otherVars>>
    /\ \/ calls < MaxCalls /\ GetStateStep(1)
       \/ calls < MaxCalls /\ GetStateFail(1)
       \/ RecordGet(1)
       \/ RecordPut(1)
       \/ RecordFail(1)
       \/ ResetPut(1)
       \/ ResetPutFail(1)
       \/ \E out \in FnOutcomes : FnSettle(1, out)
       \/ FinalPut(1)
       \/ FinalPutFail(1)
       \/ \E d \in TickDurations : Tick(d)

SpecFaulty == InitFaulty /\ [][NextFaulty]_vars

(***************************************************************************)
(* Claims about the breaker, one caller at a time (Spec).                  *)
(***************************************************************************)
\* the state record as a reader would get it now
Persisted == getState
StateLive == kv[getStateKey].live
LastWrite(p) == stateWrites[p][Len(stateWrites[p])]
FnFailed(p) == result[p].kind = "error" /\ result[p].origin = "fn"
FnSucceeded(p) == result[p].kind = "value" /\ result[p].origin = "fn"
ShortCircuited(p) == result[p] = OpenError /\ invoked[p] = 0
\* the call dispatched fn as a HALF_OPEN trial
Trialled(p) == invoked[p] = 1 /\ readState[p].state \in {OPEN, HALF_OPEN}
\* the call dispatched fn through executeInClosedState
CountedClosed(p) ==
    readState[p].state = CLOSED /\ requestCount[p] >= cfg.volumeThreshold

C2_OpenUntilNextRetryTime ==
    \A p \in Procs :
        (pc[p] = "done" /\ openNrtAtStart[p] # Undefined) =>
            IF checkTime[p] < openNrtAtStart[p]
            THEN ShortCircuited(p)
            ELSE /\ invoked[p] = 1
                 /\ Len(stateWrites[p]) >= 1
                 /\ stateWrites[p][1].state = HALF_OPEN
                 /\ stateWrites[p][1].consecutiveSuccesses = 0

\* C3: a call that dispatched its operation in HALF_OPEN and whose operation
\* failed wrote a record with state OPEN, consecutiveSuccesses = 0, failures
\* one more than it read, and a nextRetryTime above the one it read.
C3_HalfOpenFailureReopens ==
    \A p \in Procs :
        (pc[p] = "done" /\ Trialled(p) /\ FnFailed(p)) =>
            /\ Len(stateWrites[p]) >= 1
            /\ LastWrite(p).state = OPEN
            /\ LastWrite(p).consecutiveSuccesses = 0
            /\ LastWrite(p).failures = readState[p].failures + 1
            /\ LastWrite(p).nextRetryTime > readState[p].nextRetryTime

C3_Witness ==
    /\ pc[1] = "done"
    /\ Trialled(1)
    /\ FnFailed(1)
    /\ readState[1].state = HALF_OPEN
    /\ readState[1].consecutiveSuccesses >= 1
    /\ Persisted.state = OPEN

\* C4: from HALF_OPEN with consecutiveSuccesses = 0, successThreshold
\* successful trial calls in a row leave the persisted state CLOSED with
\* failures = 0 and consecutiveSuccesses = 0; after fewer the persisted
\* state is still HALF_OPEN.
C4_TrialSuccessesClose ==
    /\ trialRun >= cfg.successThreshold =>
           /\ StateLive
           /\ Persisted.state = CLOSED
           /\ Persisted.failures = 0
           /\ Persisted.consecutiveSuccesses = 0
    /\ (0 < trialRun /\ trialRun < cfg.successThreshold) =>
           /\ StateLive
           /\ Persisted.state = HALF_OPEN
           /\ Persisted.consecutiveSuccesses = trialRun

C4_Witness ==
    /\ cfg.successThreshold >= 2
    /\ trialRun = cfg.successThreshold
    /\ Persisted.state = CLOSED
    /\ pc[1] = "done"

\* C5: a call that read CLOSED and whose request count is below
\* volumeThreshold invokes its operation directly and writes no state record,
\* whatever the outcome; from the count that reaches volumeThreshold on, a
\* failure is counted: the call writes failures + 1, and OPEN exactly when
\* that reaches failureThreshold.
C5_VolumeGate ==
    \A p \in Procs :
        /\ (pc[p] = "done" /\ readState[p].state = CLOSED
              /\ requestCount[p] < cfg.volumeThreshold) =>
               /\ invoked[p] = 1
               /\ result[p].origin = "fn"
               /\ stateWrites[p] = <<>>
        /\ (pc[p] = "done" /\ CountedClosed(p) /\ FnFailed(p)) =>
               /\ Len(stateWrites[p]) = 1
               /\ LastWrite(p).failures = readState[p].failures + 1
               /\ (LastWrite(p).state = OPEN) <=>
                      (LastWrite(p).failures >= cfg.failureThreshold)

C5_Witness ==
    /\ pc[1] = "done"
    /\ readState[1].state = CLOSED
    /\ requestCount[1] < cfg.volumeThreshold
    /\ FnFailed(1)
    /\ stateWrites[1] = <<>>
    /\ ~StateLive
    /\ calls >= 1


(***************************************************************************)
(* Claims about the breaker with a failing store (SpecFaulty).             *)
(***************************************************************************)
\* C6: whatever store calls fail, no execute call rejects with a store
\* error; a call all of whose store calls failed invokes its operation
\* exactly once and settles as the operation did, never as breaker-open.
C6_StoreFailuresFailOpen ==
    \A p \in Procs :
        pc[p] = "done" =>
            /\ result[p].origin \in {"fn", "breaker"}
            /\ result[p].origin = "breaker" => ShortCircuited(p)
            /\ result[p].origin = "fn" => invoked[p] = 1
            /\ ~storeOk[p] =>
                   /\ invoked[p] = 1
                   /\ result[p].origin = "fn"
                   /\ result[p] \in FnOutcomes

C6_Witness ==
    /\ pc[1] = "done"
    /\ ~storeOk[1]
    /\ FnFailed(1)
    /\ invoked[1] = 1
    /\ StateLive
    /\ Persisted.state = OPEN


(***************************************************************************)
(* The retry orchestrator: withRetry and calculateDelay.                   *)
(***************************************************************************)
\* An option as the caller passes it: a number, the key left out, or the key
\* present with the value undefined.
Num(n) == [kind |-> "number", n |-> n]
Absent == [kind |-> "absent", n |-> 0]
UndefinedOption == [kind |-> "undefined", n |-> 0]

\* { ...DEFAULT_OPTIONS, ...options }: a key of options, whatever its value,
\* replaces the default
spread(given, default) == IF given.kind = "absent" THEN Num(default) ELSE given

mergeOptions(options) ==
    [maxRetries        |-> spread(options.maxRetries, DefaultMaxRetries),
     initialDelayMs    |-> spread(options.initialDelayMs, DefaultInitialDelayMs).n,
     maxDelayMs        |-> spread(options.maxDelayMs, DefaultMaxDelayMs).n,
     backoffMultiplier |-> spread(options.backoffMultiplier, DefaultBackoffMultiplier).n,
     onRetry           |-> options.onRetry]

RECURSIVE pow(_, _)
pow(b, e) == IF e = 0 THEN 1 ELSE b * pow(b, e - 1)

Min(a, b) == IF a <= b THEN a ELSE b

\* Variant of calculateDelay without the cap.
calculateDelay_Uncapped(a, initialDelay, maxDelay, multiplier, r) ==
    LET exponentialDelay == initialDelay * pow(multiplier, a - 1)
    IN  (exponentialDelay * 4 * JitterSteps + exponentialDelay * r) \div (4 * JitterSteps)

\* calculateDelay, with Math.random() = r / JitterSteps (0 <= r < JitterSteps):
\* floor(cappedDelay + cappedDelay * random * 0.25)
calculateDelay(a, initialDelay, maxDelay, multiplier, r) ==
    LET exponentialDelay == initialDelay * pow(multiplier, a - 1)
        cappedDelay == Min(exponentialDelay, maxDelay)
    IN  (cappedDelay * 4 * JitterSteps + cappedDelay * r) \div (4 * JitterSteps)

\* Variant of the loop test that stops one attempt early.
attemptWithin_Exclusive(a, m) == m.kind = "number" /\ a < m.n

\* for (...; attempt <= opts.maxRetries; ...): false when maxRetries is undefined
attemptWithin(a, m) == m.kind = "number" /\ a <= m.n

\* attempt === opts.maxRetries
isLastAttempt(a, m) == m.kind = "number" /\ a = m.n

\* Variant of the terminal test that does not consult shouldRetry.
mustThrow_IgnoresPredicate(a, m, ans) == isLastAttempt(a, m)

\* if (attempt === opts.maxRetries || !shouldRetry(error, attempt)) throw error
mustThrow(a, m, ans) == isLastAttempt(a, m) \/ ~ans

\* is shouldRetry evaluated? (the || short-circuits on the last attempt)
consultsShouldRetry(a, m) == ~isLastAttempt(a, m)

Event(ev, a, arg, ans) == [ev |-> ev, attempt |-> a, arg |-> arg, ans |-> ans]

\* the errors fn has rejected with so far, in order
Rejected == SelectSeq(events, LAMBDA x : x.ev = "rejected")

\* Variant of the terminal throw that raises the first error observed.
rejection_FirstError(e) ==
    [kind |-> "error",
     val |-> IF Len(Rejected) > 0 THEN Rejected[1].arg ELSE e,
     origin |-> "fn"]

\* throw error: withRetry rejects with the error just caught
rejection(e) == [kind |-> "error", val |-> e, origin |-> "fn"]

\* throw lastError, after the loop
rejectionAfterLoop == [kind |-> "error", val |-> lastError, origin |-> "none"]

\* an exception of the onRetry hook leaves the catch block and withRetry
hookRejection == [kind |-> "error", val |-> 0, origin |-> "hook"]

\* Variant of the success path that does not return.
pcAfterResolve_FallsThrough == "sleeping"

\* return await fn(): withRetry settles as soon as fn resolves
pcAfterResolve == "done"

\* the loop test, then the next await fn() or the throw after the loop
LoopTest(a, evs) ==
    /\ attempt' = a
    /\ IF attemptWithin(a, opts.maxRetries)
       THEN /\ rpc' = "inFn"
            /\ events' = Append(evs, Event("fn", a, 0, TRUE))
            /\ UNCHANGED rresult
       ELSE /\ rpc' = "done"
            /\ events' = evs
            /\ rresult' = rejectionAfterLoop

\* withRetry is called: the first loop test
RetryStart ==
    /\ rpc = "start"
    /\ LoopTest(1, events)
    /\ UNCHANGED <<opts, lastError>>

\* await fn() resolves
RetryFnResolve ==
    /\ rpc = "inFn"
    /\ rpc' = pcAfterResolve
    /\ rresult' = [kind |-> "value", val |-> attempt, origin |-> "fn"]
    /\ events' = Append(events, Event("resolved", attempt, 0, TRUE))
    /\ UNCHANGED <<opts, attempt, lastError>>

\* await fn() rejects with e; shouldRetry, if consulted, answers ans;
\* Math.random() draws r
RetryFnReject(e, ans, r) ==
    /\ rpc = "inFn"
    /\ lastError' = e
    /\ LET caught == Append(events, Event("rejected", attempt, e, TRUE))
           asked == IF consultsShouldRetry(attempt, opts.maxRetries)
                    THEN Append(caught, Event("shouldRetry", attempt, e, ans))
                    ELSE caught
           delay == calculateDelay(attempt, opts.initialDelayMs, opts.maxDelayMs,
                                   opts.backoffMultiplier, r)
           hooked == IF opts.onRetry = "none" THEN asked
                     ELSE Append(asked, Event("onRetry", attempt, e, TRUE))
       IN  IF mustThrow(attempt, opts.maxRetries, ans)
           THEN /\ rpc' = "done"
                /\ rresult' = rejection(e)
                /\ events' = asked
           ELSE IF opts.onRetry = "throws"
           THEN /\ rpc' = "done"
                /\ rresult' = hookRejection
                /\ events' = hooked
           ELSE /\ rpc' = "sleeping"
                /\ events' = Append(hooked, Event("delay", attempt, delay, TRUE))
                /\ UNCHANGED rresult
    /\ UNCHANGED <<opts, attempt>>

\* the timer fires: attempt++ and the loop test
RetryWake ==
    /\ rpc = "sleeping"
    /\ LoopTest(attempt + 1, events)
    /\ UNCHANGED <<opts, lastError>>

\* The options withRetry is called with.
DelayChoices ==
    {<<Absent, Absent, Absent>>, <<Num(4), Num(10), Num(3)>>, <<Num(5), Num(3), Num(1)>>}

RetryOptionChoices ==
    {[maxRetries |-> m, initialDelayMs |-> d[1], maxDelayMs |-> d[2],
      backoffMultiplier |-> d[3], onRetry |-> h] :
        m \in {Absent, UndefinedOption} \cup {Num(n) : n \in (-1)..MaxRetries},
        d \in DelayChoices,
        h \in {"none", "returns", "throws"}}

DefaultBreakerOptions ==
    {[failureThreshold |-> 0, successThreshold |-> 0, volumeThreshold |-> 0,
      timeout |-> 0, monitoringPeriod |-> 0]}

InitRetry ==
    /\ InitWith(DefaultBreakerOptions)
    /\ AdminIdle
    /\ OtherIdle
    /\ opts \in {mergeOptions(o) : o \in RetryOptionChoices}
    /\ rpc = "start"
    /\ attempt = 0
    /\ lastError = Undefined
    /\ rresult = NoResult
    /\ events = <<>>

NextRetry ==
    /\ UNCHANGED <<breakerVars, adminVars, otherVars>>
    /\ \/ RetryStart
       \/ RetryFnResolve
       \/ \E e \in 1..MaxErrors, ans \in BOOLEAN, r \in 0..(JitterSteps - 1) :
              RetryFnReject(e, ans, r)
       \/ RetryWake

SpecRetry == InitRetry /\ [][NextRetry]_vars

(***************************************************************************)
(* Claims about withRetry (SpecRetry).                                     *)
(***************************************************************************)
EventsOf(ev) == SelectSeq(events, LAMBDA x : x.ev = ev)
FnCalls == Len(EventsOf("fn"))
Delays == Len(EventsOf("delay"))
N == opts.maxRetries.n
RetryDone == rpc = "done"
HookThrew == rresult.origin = "hook"
\* every invocation so far was rejected and every shouldRetry answered true
AlwaysFailedRetryably ==
    /\ EventsOf("resolved") = <<>>
    /\ \A i \in DOMAIN events : events[i].ev = "shouldRetry" => events[i].ans

\* C7: with maxRetries = N >= 1 and an operation that fails on every
\* invocation with an error shouldRetry accepts, withRetry invokes the
\* operation exactly N times, sleeps exactly N - 1 times, once before each
\* attempt after the first, and then rejects (the onRetry hook, if any,
\* returning normally).
C7_AlwaysFailingInvokedNTimes ==
    (RetryDone /\ opts.maxRetries.kind = "number" /\ N >= 1
        /\ AlwaysFailedRetryably /\ ~HookThrew) =>
        /\ FnCalls = N
        /\ Delays = N - 1
        /\ rresult.kind = "error"
        /\ rresult.origin = "fn"
        /\ \A i \in DOMAIN events :
               (events[i].ev = "fn" /\ events[i].attempt > 1) =>
                   /\ events[i - 1].ev = "delay"
                   /\ events[i - 1].attempt = events[i].attempt - 1

C7_Witness ==
    /\ RetryDone
    /\ opts.maxRetries = Num(3)
    /\ AlwaysFailedRetryably
    /\ FnCalls = 3
    /\ Delays = 2
    /\ rresult.kind = "error"

\* C8: once the operation resolves, on attempt k, withRetry has invoked it
\* exactly k times (k <= maxRetries), every earlier attempt having been
\* rejected, accepted by shouldRetry and followed by one sleep; it returns
\* that attempt's result at once: the resolution is the last thing that
\* happens.
C8_SuccessOnAttemptK ==
    \A i \in DOMAIN events :
        events[i].ev = "resolved" =>
            LET k == events[i].attempt IN
            /\ i = Len(events)
            /\ RetryDone
            /\ rresult = [kind |-> "value", val |-> k, origin |-> "fn"]
            /\ FnCalls = k
            /\ k <= N
            /\ Delays = k - 1
            /\ Len(Rejected) = k - 1
            /\ \A j \in 1..(k - 1) :
                   /\ Rejected[j].attempt = j
                   /\ EventsOf("shouldRetry")[j].ans

C8_Witness ==
    /\ RetryDone
    /\ rresult.kind = "value"
    /\ rresult.val = 3
    /\ FnCalls = 3
    /\ Delays = 2
    /\ events[Len(events)].ev = "resolved"

\* C9: when shouldRetry answers false on attempt k < maxRetries, withRetry
\* rejects with that attempt's error at once: no further invocation, no
\* onRetry call for that attempt and no delay after it.
C9_NotRetryablePropagates ==
    \A i \in DOMAIN events :
        (events[i].ev = "shouldRetry" /\ ~events[i].ans) =>
            LET k == events[i].attempt IN
            /\ i = Len(events)
            /\ k < N
            /\ RetryDone
            /\ rresult = [kind |-> "error", val |-> events[i].arg, origin |-> "fn"]
            /\ events[i - 1] = Event("rejected", k, events[i].arg, TRUE)
            /\ FnCalls = k
            /\ Delays = k - 1
            /\ \A j \in DOMAIN events :
                   events[j].ev = "onRetry" => events[j].attempt < k

C9_Witness ==
    /\ RetryDone
    /\ opts.maxRetries = Num(3)
    /\ opts.onRetry = "returns"
    /\ Len(events) > 0
    /\ events[Len(events)] = Event("shouldRetry", 2, 2, FALSE)
    /\ rresult = [kind |-> "error", val |-> 2, origin |-> "fn"]

\* C10: when all maxRetries attempts fail, withRetry rejects with the error
\* of the last attempt, and an onRetry hook has been passed the error of
\* each earlier attempt k exactly once, with k, in attempt order.
C10_LastErrorOnExhaustion ==
    (RetryDone /\ opts.maxRetries.kind = "number" /\ N >= 1
        /\ Len(Rejected) = N) =>
        /\ rresult = [kind |-> "error", val |-> Rejected[N].arg, origin |-> "fn"]
        /\ \A k \in 1..N : Rejected[k].attempt = k
        /\ opts.onRetry # "none" =>
               /\ Len(EventsOf("onRetry")) = N - 1
               /\ \A k \in 1..(N - 1) :
                      EventsOf("onRetry")[k] = Event("onRetry", k, Rejected[k].arg, TRUE)

C10_Witness ==
    /\ RetryDone
    /\ opts.maxRetries = Num(3)
    /\ opts.onRetry = "returns"
    /\ Len(Rejected) = 3
    /\ Rejected[1].arg = 2 /\ Rejected[2].arg = 3 /\ Rejected[3].arg = 1
    /\ rresult.val = 1
    /\ Len(EventsOf("onRetry")) = 2

\* the exponential term of the delay taken after attempt k
ExponentialTerm(k) == opts.initialDelayMs * pow(opts.backoffMultiplier, k - 1)

\* C11 (as claimed): whatever the onRetry hook does, throwing included,
\* withRetry ends as it would without a hook: by returning the value of the
\* invocation that resolved, or by rejecting with the error of the last
\* attempt or of the attempt shouldRetry refused.
C11_HookDoesNotAbort ==
    (RetryDone /\ FnCalls >= 1) =>
        LET last == events[Len(events)] IN
        \/ last.ev = "resolved" /\ rresult.kind = "value"
        \/ /\ last.ev = "rejected"
           /\ isLastAttempt(last.attempt, opts.maxRetries)
           /\ rresult = rejection(last.arg)
        \/ /\ last.ev = "shouldRetry"
           /\ ~last.ans
           /\ rresult = rejection(last.arg)

\* C12 (as claimed): the delay taken after attempt k, 1 <= k < maxRetries,
\* lies in [initialDelayMs * multiplier^(k-1),
\*          1.25 * min(maxDelayMs, initialDelayMs * multiplier^(k-1))].
C12_DelayAtLeastExponential ==
    \A i \in DOMAIN events :
        events[i].ev = "delay" =>
            LET k == events[i].attempt IN
            /\ 1 <= k /\ k < N
            /\ events[i].arg >= ExponentialTerm(k)
            /\ 4 * events[i].arg <= 5 * Min(opts.maxDelayMs, ExponentialTerm(k))

\* C12 (amended): the delay taken after attempt k, 1 <= k < maxRetries, lies
\* in [c, 1.25 * c] with c = min(maxDelayMs, initialDelayMs * multiplier^(k-1)),
\* and there is one such delay for every attempt that was retried.
C12_DelayWithinCappedBounds ==
    \A i \in DOMAIN events :
        events[i].ev = "delay" =>
            LET k == events[i].attempt
                c == Min(opts.maxDelayMs, ExponentialTerm(k))
            IN  /\ 1 <= k /\ k < N
                /\ events[i].arg >= c
                /\ 4 * events[i].arg <= 5 * c

C12_Witness ==
    /\ opts.initialDelayMs = 4
    /\ opts.maxDelayMs = 10
    /\ opts.backoffMultiplier = 3
    /\ Delays = 2
    /\ EventsOf("delay")[1].arg = 4
    /\ EventsOf("delay")[2].arg = 11
    /\ ExponentialTerm(2) = 12

(***************************************************************************)
(* Claims about the outcome and the order of the steps of one call (Spec). *)
(***************************************************************************)
\* caller p's step invokes fn
Dispatches(p) == invoked'[p] > invoked[p]
\* caller p's step puts the state record
WritesState(p) == Len(stateWrites'[p]) > Len(stateWrites[p])
\* caller p has read the state record in this call
HasReadState(p) == pc[p] \in {"recordGet", "recordPut", "resetPut"}

\* C13: a call that invoked its operation invoked it once and settles as the
\* operation did, with the operation's own error or value, on the
\* pass-through, CLOSED and HALF_OPEN paths; a call settles with the
\* breaker-open error, which carries the breaker's name, exactly when it did
\* not invoke the operation.
C13_OperationOutcomeUnchanged ==
    \A p \in Procs :
        pc[p] = "done" =>
            /\ invoked[p] \in {0, 1}
            /\ invoked[p] = 1 =>
                   /\ pending[p] \in FnOutcomes
                   /\ result[p] = pending[p]
            /\ invoked[p] = 0 =>
                   /\ pending[p] = NoResult
                   /\ result[p] = OpenError
                   /\ st[p].state = OPEN

C13_Witness ==
    /\ pc[1] = "done"
    /\ Trialled(1)
    /\ pending[1].kind = "error"
    /\ result[1] = pending[1]
    /\ result[1].val = "E1"
    /\ Len(stateWrites[1]) = 2

\* C14 (as claimed): in every call the read of the state record precedes
\* the dispatch of the operation, and the dispatch precedes every write the
\* call makes to the state record.
C14_DispatchBeforeEveryWrite ==
    [][\A p \in Procs :
          /\ Dispatches(p) => HasReadState(p)
          /\ WritesState(p) => invoked[p] >= 1]_vars

\* C14 (amended): in every call the read of the state record precedes the
\* dispatch of the operation, and the dispatch precedes every write the call
\* makes to the state record, except the write of the OPEN -> HALF_OPEN
\* transition: a call that read OPEN puts the HALF_OPEN record first, once,
\* and dispatches right after it.
C14_OnlyTransitionWriteBeforeDispatch ==
    [][\A p \in Procs :
          /\ Dispatches(p) => HasReadState(p)
          /\ WritesState(p) =>
                 \/ /\ invoked[p] = 1
                    /\ pc[p] \in {"closedPut", "halfPut"}
                 \/ /\ invoked[p] = 0
                    /\ pc[p] = "resetPut"
                    /\ readState[p].state = OPEN
                    /\ stateWrites[p] = <<>>
                    /\ stateWrites'[p][1].state = HALF_OPEN
                    /\ Dispatches(p)]_vars

C14_Witness ==
    /\ pc[1] = "done"
    /\ readState[1].state = OPEN
    /\ invoked[1] = 1
    /\ Len(stateWrites[1]) = 2
    /\ stateWrites[1][1].state = HALF_OPEN
    /\ stateWrites[1][2].state = CLOSED

(***************************************************************************)
(* Concurrent callers of one breaker name.  Each caller is a request task  *)
(* of its own; the tasks share nothing but the store, and every await of   *)
(* execute is a point where another task may run.                          *)
(***************************************************************************)
ConcurrentOptions ==
    {[failureThreshold |-> f, successThreshold |-> s, volumeThreshold |-> 1,
      timeout |-> 2 * TickMs, monitoringPeriod |-> 4 * TickMs] :
        f \in {1, MaxFailureThreshold}, s \in {1, MaxSuccessThreshold}}

InitConcurrent == InitWith(ConcurrentOptions) /\ RetryIdle /\ AdminIdle /\ OtherIdle

NextConcurrent ==
    /\ UNCHANGED <<retryVars, adminVars, otherVars>>
    /\ \/ \E p \in Procs : calls < MaxConcurrentCalls /\ GetStateStep(p)
       \/ \E p \in Procs : RecordGet(p)
       \/ \E p \in Procs : RecordPut(p)
       \/ \E p \in Procs : ResetPut(p)
       \/ \E p \in Procs, out \in FnOutcomes : FnSettle(p, out)
       \/ \E p \in Procs : FinalPut(p)
       \/ \E d \in TickDurations : Tick(d)

SpecConcurrent == InitConcurrent /\ [][NextConcurrent]_vars

(***************************************************************************)
(* Claims about concurrent callers (SpecConcurrent).                       *)
(***************************************************************************)
InFlight(p) == pc[p] \notin {"idle", "done"}
\* the persisted record is OPEN, was put by a call on path `how`, its
\* nextRetryTime is not reached after the step and the store expires nothing
OpenHeld(how) ==
    /\ StateLive
    /\ Persisted.state = OPEN
    /\ lastPut.how = how
    /\ now' < Persisted.nextRetryTime
    /\ StateLive'
\* the request-volume counter as a reader would get it now
Counter ==
    IF kv[getRequestsKey].live THEN parseInt(kv[getRequestsKey].val) ELSE 0

\* C15 (as claimed): with the calls in flight all trialling (they read OPEN
\* past its nextRetryTime, or HALF_OPEN), once a trial has failed and put
\* OPEN, no step before the nextRetryTime it wrote makes the persisted state
\* HALF_OPEN or CLOSED again.
C15_ReopeningNotUndone ==
    [][(/\ OpenHeld("halfPut")
        /\ \A p \in Procs : InFlight(p) => readState[p].state \in {OPEN, HALF_OPEN})
          => Persisted'.state = OPEN]_vars

\* C16 (as claimed): with the calls in flight all having read CLOSED, once
\* one of them has put OPEN, no call that read the state earlier puts CLOSED
\* over it: the persisted state stays OPEN until nextRetryTime.
C16_OpenNotOverwritten ==
    [][(/\ OpenHeld("closedPut")
        /\ \A p \in Procs : InFlight(p) => readState[p].state = CLOSED)
          => Persisted'.state = OPEN]_vars

\* C17 (as claimed): within one monitoring window, once no call is inside
\* recordRequest, the request-volume counter equals the number of execute
\* calls made, under any interleaving of the callers.
C17_EveryCallCounted ==
    (/\ now < cfg.monitoringPeriod
     /\ \A p \in Procs : pc[p] \notin {"recordGet", "recordPut"})
        => Counter = calls

(***************************************************************************)
(* reset and trip, called between the execute calls of one caller.         *)
(***************************************************************************)
\* Variant of reset that forces the state and keeps the rest of the record.
resetState_KeepsCounters == [getState EXCEPT !.state = CLOSED]

\* reset: the record it builds
resetState ==
    [state |-> CLOSED, failures |-> 0, successes |-> 0,
     lastFailureTime |-> Undefined, nextRetryTime |-> Undefined,
     consecutiveSuccesses |-> 0, totalRequests |-> 0]

\* Variant of trip that opens the breaker and sets no retry time.
tripState_NoRetryTime(s, t) == [s EXCEPT !.state = OPEN]

\* trip: state.state = OPEN; state.nextRetryTime = Date.now() + this.timeout
tripState(s, t) ==
    [s EXCEPT !.state = OPEN, !.nextRetryTime = t + cfg.timeout]

\* setState(rec) of an administrative call
adminPut(how, rec) ==
    /\ kv' = kvPut(kv, getStateKey, JSONstringify(rec))
    /\ openNrt' = openNrtAfter(rec)
    /\ lastPut' = [how |-> how, by |-> 0, rec |-> rec]
    /\ failRun' = 0
    /\ trialRun' = 0
    /\ UNCHANGED <<cfg, now, ticks, pc, st, requestCount, pending, result,
                   calls, readState, invoked, stateWrites, checkTime,
                   settleTime, storeOk, afterRun, openNrtAtStart,
                   lastPutAtStart>>

\* reset(): await this.setState({CLOSED, 0, 0, 0, 0})
Reset ==
    /\ apc = "idle"
    /\ \A p \in Procs : Idle(p)
    /\ adminOps < MaxAdminOps
    /\ adminOps' = adminOps + 1
    /\ adminPut("reset", resetState)
    /\ adminPrior' = Persisted
    /\ UNCHANGED <<apc, ast, adminAt>>

\* trip(): const state = await this.getState(); then the two assignments
TripGet ==
    /\ apc = "idle"
    /\ \A p \in Procs : Idle(p)
    /\ adminOps < MaxAdminOps
    /\ adminOps' = adminOps + 1
    /\ apc' = "tripPut"
    /\ ast' = getState
    /\ adminAt' = now
    /\ adminPrior' = Persisted
    /\ UNCHANGED breakerVars

\* trip(): await this.setState(state)
TripPut ==
    /\ apc = "tripPut"
    /\ apc' = "idle"
    /\ adminPut("trip", tripState(ast, adminAt))
    /\ UNCHANGED <<ast, adminAt, adminPrior, adminOps>>

AdminOptions ==
    {[failureThreshold |-> f, successThreshold |-> MaxSuccessThreshold,
      volumeThreshold |-> v, timeout |-> 2 * TickMs,
      monitoringPeriod |-> 4 * TickMs] :
        f \in {1}, v \in {1, MaxVolumeThreshold}}

InitAdmin == InitWith(AdminOptions) /\ RetryIdle /\ AdminIdle /\ OtherIdle

NextAdmin ==
    \/ /\ UNCHANGED <<retryVars, adminVars, otherVars>>
       /\ \/ calls < MaxAdminCalls /\ apc = "idle" /\ GetStateStep(1)
          \/ RecordGet(1)
          \/ RecordPut(1)
          \/ ResetPut(1)
          \/ \E out \in FnOutcomes : FnSettle(1, out)
          \/ FinalPut(1)
          \/ \E d \in TickDurations : Tick(d)
    \/ /\ UNCHANGED <<retryVars, otherVars>>
       /\ \/ Reset
          \/ TripGet
          \/ TripPut

SpecAdmin == InitAdmin /\ [][NextAdmin]_vars

(***************************************************************************)
(* The example scenario: one caller at a time, a breaker constructed with  *)
(* { failureThreshold: 3, successThreshold: 2, timeout: 1000,              *)
(*   volumeThreshold: 1 } and nothing in the store.                        *)
(***************************************************************************)
ScenarioOptions ==
    {[failureThreshold |-> 3, successThreshold |-> 2, volumeThreshold |-> 1,
      timeout |-> 1000, monitoringPeriod |-> 0]}

InitScenario == InitWith(ScenarioOptions) /\ RetryIdle /\ AdminIdle /\ OtherIdle

NextScenario ==
    /\ UNCHANGED <<retryVars, adminVars, otherVars>>
    /\ \/ calls < MaxScenarioCalls /\ GetStateStep(1)
       \/ RecordGet(1)
       \/ RecordPut(1)
       \/ ResetPut(1)
       \/ \E out \in FnOutcomes : FnSettle(1, out)
       \/ FinalPut(1)
       \/ \E d \in TickDurations : Tick(d)

SpecScenario == InitScenario /\ [][NextScenario]_vars

\* C18: in the scenario, (a) after three consecutive failing calls the
\* persisted state is OPEN, to be retried 1000 ms after the third failure;
\* (b) a call made after them less than 1000 ms after the third failure is
\* short-circuited; (c) a call that finds the OPEN record 1000 ms or more
\* after the third failure puts HALF_OPEN and invokes its operation; (d)
\* after that trial succeeded the state is HALF_OPEN, and after the next one
\* succeeded too it is CLOSED.
C18_ExampleScenario ==
    /\ \A p \in Procs :
           /\ (pc[p] = "done" /\ failRun >= 3) =>
                  /\ StateLive
                  /\ Persisted.state = OPEN
                  /\ Persisted.nextRetryTime = settleTime[p] + 1000
           /\ (pc[p] = "done" /\ afterRun[p]
                 /\ checkTime[p] < readState[p].lastFailureTime + 1000) =>
                  ShortCircuited(p)
           /\ (pc[p] = "done" /\ readState[p].state = OPEN
                 /\ checkTime[p] >= readState[p].lastFailureTime + 1000) =>
                  /\ invoked[p] = 1
                  /\ stateWrites[p][1].state = HALF_OPEN
    /\ trialRun = 1 => StateLive /\ Persisted.state = HALF_OPEN
    /\ trialRun >= 2 => StateLive /\ Persisted.state = CLOSED

C18_Witness ==
    /\ cfg.failureThreshold = 3 /\ cfg.successThreshold = 2
    /\ cfg.timeout = 1000 /\ cfg.volumeThreshold = 1
    /\ pc[1] = "done"
    /\ calls = 6
    /\ Counter = 6
    /\ trialRun = 2
    /\ Persisted.state = CLOSED
    /\ Persisted.totalRequests = 5
    /\ Persisted.lastFailureTime = 0
    /\ now = 1000

(***************************************************************************)
(* Claims about reset and trip (SpecAdmin).                                *)
(***************************************************************************)
\* the state record is the one reset / trip put: nothing was put since
PutBy(how) == lastPut.how = how /\ StateLive
\* caller p's call began with the record of reset / trip the last one put
BeganAfter(p, how) == lastPutAtStart[p].how = how

\* C19: while the record reset put is the persisted one, it is CLOSED with
\* failures, successes, consecutiveSuccesses and totalRequests 0 and without
\* nextRetryTime, whatever was persisted before; and a call that begins
\* after reset, before any other put, invokes its operation.
C19_ResetClosesAndZeroes ==
    /\ PutBy("reset") =>
           /\ Persisted.state = CLOSED
           /\ Persisted.failures = 0
           /\ Persisted.successes = 0
           /\ Persisted.consecutiveSuccesses = 0
           /\ Persisted.totalRequests = 0
           /\ Persisted.nextRetryTime = Undefined
    /\ \A p \in Procs :
           (pc[p] = "done" /\ BeganAfter(p, "reset")) =>
               /\ invoked[p] = 1
               /\ result[p] \in FnOutcomes

C19_Witness ==
    /\ pc[1] = "done"
    /\ BeganAfter(1, "reset")
    /\ adminPrior.state = OPEN
    /\ adminPrior.failures > 0
    /\ checkTime[1] < adminPrior.nextRetryTime
    /\ invoked[1] = 1

C21_ClosedOrOpenResetsTrialCount ==
    (lastPut.how # "none" /\ lastPut.rec.state \in {CLOSED, OPEN}) =>
        lastPut.rec.consecutiveSuccesses = 0

\* C22 (as claimed): in every persisted state record, nextRetryTime is
\* present only when state is OPEN.
C22_NextRetryTimeOnlyWhenOpen ==
    (StateLive /\ Persisted.nextRetryTime # Undefined) =>
        Persisted.state = OPEN

(***************************************************************************)
(* The lifetime counters.  One caller at a time, no reset and no trip;     *)
(* every settling of the operation is counted beside the record.           *)
(***************************************************************************)
LedgerOptions ==
    {[failureThreshold |-> f, successThreshold |-> MaxSuccessThreshold,
      volumeThreshold |-> v, timeout |-> 2 * TickMs,
      monitoringPeriod |-> 4 * TickMs] :
        f \in {1, MaxFailureThreshold}, v \in {1, MaxVolumeThreshold}}

InitLedger == InitWith(LedgerOptions) /\ RetryIdle /\ AdminIdle /\ OtherIdle

\* the run of counted CLOSED failures once fn settled with out at step
\* `where`: a pass-through is not counted, a trial begins a new count
streakAfter(where, out) ==
    IF where = "passFn" THEN closedStreak
    ELSE IF where = "closedFn" /\ out.kind = "error" THEN closedStreak + 1
    ELSE 0

\* await fn() settles, and the settling is counted
CountedFnSettle(p, out) ==
    /\ FnSettle(p, out)
    /\ invokedTotal' = invokedTotal + 1
    /\ succeededTotal' = succeededTotal + (IF out.kind = "value" THEN 1 ELSE 0)
    /\ closedStreak' = streakAfter(pc[p], out)

NextLedger ==
    /\ UNCHANGED <<retryVars, adminVars, status, registryVars, delayVars>>
    /\ \/ calls < MaxLedgerCalls /\ GetStateStep(1) /\ UNCHANGED ledgerVars
       \/ RecordGet(1) /\ UNCHANGED ledgerVars
       \/ RecordPut(1) /\ UNCHANGED ledgerVars
       \/ ResetPut(1) /\ UNCHANGED ledgerVars
       \/ \E out \in FnOutcomes : CountedFnSettle(1, out)
       \/ FinalPut(1) /\ UNCHANGED ledgerVars
       \/ \E d \in TickDurations : Tick(d) /\ UNCHANGED ledgerVars

SpecLedger == InitLedger /\ [][NextLedger]_vars

\* no record written so far has reached its expiration time
NoExpirySoFar == now < expirationTtl * MsPerSecond

\* C23 (as claimed): after any sequence of execute calls made one after
\* another, with no reset and no record expiry, totalRequests of the state
\* record is the number of calls that invoked their operation and successes
\* is the number of those whose operation succeeded.
C23_LifetimeCountersExact ==
    (pc[1] \in {"idle", "done"} /\ NoExpirySoFar) =>
        /\ getState.totalRequests = invokedTotal
        /\ getState.successes = succeededTotal

(***************************************************************************)
(* getStatus.  The failure rate is kept in hundredths: Math.round(x * 100) *)
(* is the integer nearest to 100 * failures / totalRequests, halves        *)
(* rounded up.                                                             *)
(***************************************************************************)
failureRate_Truncated(s) ==
    IF s.totalRequests > 0 THEN (100 * s.failures) \div s.totalRequests ELSE 0

\* Math.round(failureRate * 100) / 100, in hundredths
failureRate(s) ==
    IF s.totalRequests > 0
    THEN (200 * s.failures + s.totalRequests) \div (2 * s.totalRequests)
    ELSE 0

\* state.lastFailureTime ? new Date(state.lastFailureTime) : undefined
dateOrUndefined(t) == IF t = Undefined \/ t = 0 THEN Undefined ELSE t

getStatusOf(s) ==
    [name |-> name,
     state |-> s.state,
     metrics |-> [failures |-> s.failures,
                  successes |-> s.successes,
                  totalRequests |-> s.totalRequests,
                  failureRate |-> failureRate(s),
                  lastFailureTime |-> dateOrUndefined(s.lastFailureTime),
                  nextRetryTime |-> dateOrUndefined(s.nextRetryTime)],
     config |-> [failureThreshold |-> cfg.failureThreshold,
                 successThreshold |-> cfg.successThreshold,
                 timeout |-> cfg.timeout]]

\* const state = await this.getState(); return {...}
GetStatus ==
    /\ status' = getStatusOf(getState)
    /\ UNCHANGED <<breakerVars, retryVars, adminVars, ledgerVars,
                   registryVars, delayVars>>

InitStatus == InitWith(AdminOptions) /\ RetryIdle /\ AdminIdle /\ OtherIdle

NextStatus ==
    \/ /\ UNCHANGED <<retryVars, adminVars, otherVars>>
       /\ \/ calls < MaxStatusCalls /\ GetStateStep(1)
          \/ RecordGet(1)
          \/ RecordPut(1)
          \/ ResetPut(1)
          \/ \E out \in FnOutcomes : FnSettle(1, out)
          \/ FinalPut(1)
          \/ \E d \in TickDurations : Tick(d)
    \/ GetStatus

SpecStatus == InitStatus /\ [][NextStatus]_vars

\* h is 100 * f / t rounded to the nearest integer
NearestHundredth(h, f, t) ==
    /\ 2 * (h * t - 100 * f) <= t
    /\ 2 * (100 * f - h * t) <= t

\* C24: whenever getStatus returns, the state it reports is the state of the
\* state record (of the default record if there is none), the failure rate is
\* failures / totalRequests rounded to two decimals, 0 when totalRequests
\* is 0, and the thresholds and the timeout are the instance's.
C24_StatusReportsRecordAndConfig ==
    [][status' # status =>
         /\ status'.state = getState.state
         /\ IF getState.totalRequests = 0
            THEN status'.metrics.failureRate = 0
            ELSE NearestHundredth(status'.metrics.failureRate,
                                  getState.failures, getState.totalRequests)
         /\ status'.config.failureThreshold = cfg.failureThreshold
         /\ status'.config.successThreshold = cfg.successThreshold
         /\ status'.config.timeout = cfg.timeout]_vars

\* getStatus has reported two failures in three requests as 0.67, with the
\* breaker OPEN
C24_Witness ==
    /\ status # NoStatus
    /\ status.state = OPEN
    /\ status.metrics.failures = 2
    /\ status.metrics.totalRequests = 3
    /\ status.metrics.failureRate = 67

(***************************************************************************)
(* The registry of breakers, one per process.  An instance is known by     *)
(* the lookup that constructed it.                                         *)
(***************************************************************************)
\* the options a lookup passes; 0: not passed
RegistryOptions ==
    {[failureThreshold |-> f, successThreshold |-> 0, volumeThreshold |-> 0,
      timeout |-> t, monitoringPeriod |-> 0] :
        f \in {0, 1, MaxFailureThreshold}, t \in {0, TickMs}}

\* new CircuitBreaker(name, options)
newCircuitBreaker(n, o, id) == [id |-> id, name |-> n, cfg |-> Constructor(o)]

\* circuitBreakers.has(name)
has(map, n) == map[n] # NoInstance

registryAfter_AlwaysConstructs(map, n, o, id) ==
    [map EXCEPT ![n] = newCircuitBreaker(n, o, id)]

\* if (!circuitBreakers.has(name)) circuitBreakers.set(name, new CircuitBreaker(name, options))
registryAfter(map, n, o, id) ==
    IF ~has(map, n)
    THEN [map EXCEPT ![n] = newCircuitBreaker(n, o, id)]
    ELSE map

\* getCircuitBreaker(name, options): return circuitBreakers.get(name)!
GetCircuitBreaker(n, o) ==
    /\ lookups < MaxLookups
    /\ lookups' = lookups + 1
    /\ circuitBreakers' = registryAfter(circuitBreakers, n, o, lookups + 1)
    /\ returned' = [for |-> n, with |-> o, instance |-> circuitBreakers'[n]]
    /\ firstLookup' =
          IF firstLookup[n].called THEN firstLookup
          ELSE [firstLookup EXCEPT
                  ![n] = [called |-> TRUE, options |-> o,
                          instance |-> circuitBreakers'[n]]]
    /\ UNCHANGED <<breakerVars, retryVars, adminVars, ledgerVars, status,
                   delayVars>>

InitRegistry == InitWith(DefaultBreakerOptions) /\ RetryIdle /\ AdminIdle /\ OtherIdle

NextRegistry ==
    \E n \in RegistryNames, o \in RegistryOptions : GetCircuitBreaker(n, o)

SpecRegistry == InitRegistry /\ [][NextRegistry]_vars

\* C25: for every name, the first lookup constructs a breaker of that name
\* with the options it passed; every later lookup of the name returns that
\* same instance, whatever options it passes; two names never share an
\* instance.
C25_RegistryReusesFirstInstance ==
    /\ \A n \in RegistryNames :
          firstLookup[n].called =>
            /\ firstLookup[n].instance.name = n
            /\ firstLookup[n].instance.cfg = Constructor(firstLookup[n].options)
            /\ circuitBreakers[n] = firstLookup[n].instance
            /\ returned.for = n => returned.instance = firstLookup[n].instance
    /\ \A n, m \in RegistryNames :
          (n # m /\ firstLookup[n].called /\ firstLookup[m].called) =>
            circuitBreakers[n].id # circuitBreakers[m].id

\* both names looked up, and the last lookup, with other options than the
\* first lookup of its name, returned the instance an earlier lookup made
C25_Witness ==
    /\ \A n \in RegistryNames : firstLookup[n].called
    /\ returned # NoReturn
    /\ returned.with # firstLookup[returned.for].options
    /\ returned.instance.id < lookups
    /\ returned.instance.cfg # Constructor(returned.with)

(***************************************************************************)
(* calculateDelay on its own, the multiplier a fraction num / den >= 1.    *)
(* The multipliers drawn are halves, which doubles represent exactly, so   *)
(* the arithmetic below is the arithmetic of the code.                     *)
(***************************************************************************)
\* (num, den) of the multipliers 1, 1.5, 2 and 2.5
Multipliers == {<<1, 1>>, <<3, 2>>, <<2, 1>>, <<5, 2>>}

DelayInputs ==
    [attempt : 1..MaxDelayAttempt,
     initialDelay : 1..MaxInitialDelay,
     maxDelay : 1..MaxMaxDelay,
     multiplier : Multipliers,
     r : 0..(JitterSteps - 1)]

\* cappedDelay = cappedNum(..) / denominator(..)
denominator(x) == pow(x.multiplier[2], x.attempt - 1)

cappedNum(x) ==
    Min(x.initialDelay * pow(x.multiplier[1], x.attempt - 1),
        x.maxDelay * denominator(x))

calculateDelayQ_Uncapped(x) ==
    LET exponentialNum == x.initialDelay * pow(x.multiplier[1], x.attempt - 1)
    IN  (exponentialNum * (4 * JitterSteps + x.r)) \div (denominator(x) * 4 * JitterSteps)

\* calculateDelay, with Math.random() = r / JitterSteps:
\* floor(cappedDelay + cappedDelay * random * 0.25)
calculateDelayQ(x) ==
    (cappedNum(x) * (4 * JitterSteps + x.r)) \div (denominator(x) * 4 * JitterSteps)

InitDelay ==
    /\ InitWith(DefaultBreakerOptions) /\ RetryIdle /\ AdminIdle
    /\ LedgerIdle /\ status = NoStatus /\ RegistryIdle
    /\ delayArgs \in DelayInputs
    /\ delayOut = Undefined

ApplyCalculateDelay ==
    /\ delayOut = Undefined
    /\ delayOut' = calculateDelayQ(delayArgs)
    /\ UNCHANGED <<breakerVars, retryVars, adminVars, ledgerVars, status,
                   registryVars, delayArgs>>

NextDelay == ApplyCalculateDelay

SpecDelay == InitDelay /\ [][NextDelay]_vars

\* C26 (as claimed): for all positive integers attempt, initialDelay and
\* maxDelay and every multiplier >= 1, the result of calculateDelay lies
\* between c = min(maxDelay, initialDelay * multiplier^(attempt-1)) and
\* floor(1.25 * c), and never exceeds floor(1.25 * maxDelay).
C26_DelayBetweenCappedAndJittered ==
    delayOut # Undefined =>
        /\ delayOut * denominator(delayArgs) >= cappedNum(delayArgs)
        /\ delayOut <= (5 * cappedNum(delayArgs)) \div (4 * denominator(delayArgs))
        /\ delayOut <= (5 * delayArgs.maxDelay) \div 4

\* C26 (amended): the result of calculateDelay lies between floor(c) and
\* floor(1.25 * c), and never exceeds floor(1.25 * maxDelay).
C26_DelayBetweenFlooredBounds ==
    delayOut # Undefined =>
        /\ delayOut >= cappedNum(delayArgs) \div denominator(delayArgs)
        /\ delayOut <= (5 * cappedNum(delayArgs)) \div (4 * denominator(delayArgs))
        /\ delayOut <= (5 * delayArgs.maxDelay) \div 4

\* calculateDelay has returned, with jitter drawn, for a capped delay that
\* is not an integer, and the result is that delay rounded down
C26_Witness ==
    /\ delayOut # Undefined
    /\ cappedNum(delayArgs) % denominator(delayArgs) # 0
    /\ delayOut = cappedNum(delayArgs) \div denominator(delayArgs)
    /\ delayArgs.r > 0

(***************************************************************************)
(* withRetry with default options: shouldRetry is defaultShouldRetry.  An  *)
(* error is a record of its code, its status and its message; a message    *)
(* is the sequence of its parts, and includes(pattern) looks for a part.   *)
(***************************************************************************)
NoCode == ""

\* error.status === undefined
NoStatusCode == 0

\* error.message === undefined
NoMessage == <<>>

ErrorCodes == {NoCode, "ECONNREFUSED", "EPIPE"}

ErrorStatuses == {NoStatusCode, 401, 404, 429, 500, 503}

ErrorMessages ==
    {NoMessage, <<"Internal error">>, <<"request blocked by ", "network", " policy">>}

ErrorChoices ==
    [code : ErrorCodes, status : ErrorStatuses, message : ErrorMessages]

\* error.message?.includes(pattern)
includes(message, pattern) == \E i \in DOMAIN message : message[i] = pattern

defaultShouldRetry_AnyStatus(error) ==
    \/ error.code \in {"ECONNREFUSED", "ETIMEDOUT", "ENOTFOUND"}
    \/ error.status # NoStatusCode
    \/ includes(error.message, "fetch failed")
    \/ includes(error.message, "network")

defaultShouldRetry(error) ==
    IF error.code \in {"ECONNREFUSED", "ETIMEDOUT", "ENOTFOUND"} THEN TRUE
    ELSE IF error.status \in {429, 502, 503, 504} THEN TRUE
    ELSE IF includes(error.message, "fetch failed") \/ includes(error.message, "network")
    THEN TRUE
    ELSE FALSE

\* withRetry(fn): no options passed
NoRetryOptions ==
    [maxRetries |-> Absent, initialDelayMs |-> Absent, maxDelayMs |-> Absent,
     backoffMultiplier |-> Absent, onRetry |-> "none"]

InitDefaultRetry ==
    /\ InitWith(DefaultBreakerOptions)
    /\ AdminIdle
    /\ OtherIdle
    /\ opts = mergeOptions(NoRetryOptions)
    /\ rpc = "start"
    /\ attempt = 0
    /\ lastError = Undefined
    /\ rresult = NoResult
    /\ events = <<>>

NextDefaultRetry ==
    /\ UNCHANGED <<breakerVars, adminVars, otherVars>>
    /\ \/ RetryStart
       \/ RetryFnResolve
       \/ \E e \in ErrorChoices, r \in 0..(JitterSteps - 1) :
              RetryFnReject(e, defaultShouldRetry(e), r)
       \/ RetryWake

SpecDefaultRetry == InitDefaultRetry /\ [][NextDefaultRetry]_vars

\* the errors the claim names retryable
NamedRetryable(e) ==
    \/ e.code \in {"ECONNREFUSED", "ETIMEDOUT", "ENOTFOUND"}
    \/ e.status \in {429, 502, 503, 504}
    \/ includes(e.message, "fetch failed") \/ includes(e.message, "network")

\* status 401, 403 or another 4xx other than 429
ClientErrorStatus(n) == 400 <= n /\ n < 500 /\ n # 429

\* every answer of the default predicate so far is the named classification
AnswersAsNamed ==
    \A i \in DOMAIN events :
        events[i].ev = "shouldRetry" => (events[i].ans <=> NamedRetryable(events[i].arg))

\* C27 (as claimed): the default predicate answers true exactly for the
\* errors named retryable, and withRetry with default options invokes the
\* operation once for every error carrying status 401, 403 or another 4xx
\* other than 429.
C27_ClientErrorsAlwaysTerminal ==
    /\ AnswersAsNamed
    /\ (RetryDone /\ Len(Rejected) >= 1 /\ ClientErrorStatus(Rejected[1].arg.status)) =>
          FnCalls = 1

\* C27 (amended): the default predicate answers true exactly for the errors
\* named retryable, and withRetry with default options invokes the operation
\* once for every error carrying status 401, 403 or another 4xx other than
\* 429 that has no retryable code and no network-failure message pattern.
C27_OtherClientErrorsTerminal ==
    /\ AnswersAsNamed
    /\ (/\ RetryDone
        /\ Len(Rejected) >= 1
        /\ ClientErrorStatus(Rejected[1].arg.status)
        /\ ~NamedRetryable(Rejected[1].arg)) =>
          /\ FnCalls = 1
          /\ rresult = rejection(Rejected[1].arg)

\* withRetry with default options has rejected after one invocation that
\* failed with a 401 of no retryable code and no network message
C27_Witness ==
    /\ RetryDone
    /\ FnCalls = 1
    /\ Len(Rejected) = 1
    /\ Rejected[1].arg.status = 401
    /\ ~NamedRetryable(Rejected[1].arg)
    /\ rresult = rejection(Rejected[1].arg)

(***************************************************************************)
(* ApiClient.request: withRetry around fetch, with the client's own        *)
(* shouldRetry and onRetry.  A response is its status and its body; a body *)
(* is JSON, with or without a message member, or other text.  A body can   *)
(* be read once: response.json() reads it and rejects when it is not       *)
(* JSON, and response.text() on a body already read rejects with a         *)
(* TypeError.                                                              *)
(***************************************************************************)
ApiMaxRetries == 3
ApiInitialDelayMs == 100
ApiMaxDelayMs == 900

\* this.retryOptions of a client constructed without retryOptions, spread
\* into the options of withRetry together with onRetry
ApiRetryOptions ==
    [maxRetries |-> Num(ApiMaxRetries), initialDelayMs |-> Num(ApiInitialDelayMs),
     maxDelayMs |-> Num(ApiMaxDelayMs), backoffMultiplier |-> Absent,
     onRetry |-> "returns"]

ResponseStatuses == {200, 401, 404, 429, 500, 503}

ResponseBodies ==
    {[kind |-> "json", message |-> "quota exceeded", content |-> "b1"],
     [kind |-> "json", message |-> "", content |-> "b2"],
     [kind |-> "text", message |-> "", content |-> "b3"]}

Responses == [status : ResponseStatuses, body : ResponseBodies]

\* response.ok
ok(response) == 200 <= response.status /\ response.status <= 299

NoBody == [kind |-> "none", message |-> "", content |-> ""]

\* the TypeError of response.text() on a body already read
BodyUsedError(response) ==
    [status |-> NoStatusCode, body |-> NoBody,
     message |-> "Body has already been used", from |-> response]

\* errorBody.message, or `HTTP ${response.status}: ${response.statusText}`
errorMessage(response) ==
    IF response.body.message # "" THEN response.body.message ELSE "HTTP status"

\* what the callback throws for a response that is not ok; `from` is
\* history: the response the error was made from
apiError(response) ==
    IF response.body.kind = "json"
    THEN [status |-> response.status, body |-> response.body,
          message |-> errorMessage(response), from |-> response]
    ELSE BodyUsedError(response)

\* shouldRetry of request, retryOptions.shouldRetry not given
apiShouldRetry(err) ==
    IF err.status = 401 \/ err.status = 403 THEN FALSE
    ELSE IF err.status # NoStatusCode /\ err.status >= 400 /\ err.status < 500
            /\ err.status # 429
    THEN FALSE
    ELSE TRUE

\* await fetch(...) returns response, and the callback settles on it
ApiFetch(response) ==
    IF ok(response)
    THEN RetryFnResolve
    ELSE \E r \in 0..(JitterSteps - 1) :
             RetryFnReject(apiError(response), apiShouldRetry(apiError(response)), r)

InitApiClient ==
    /\ InitWith(DefaultBreakerOptions)
    /\ AdminIdle
    /\ OtherIdle
    /\ opts = mergeOptions(ApiRetryOptions)
    /\ rpc = "start"
    /\ attempt = 0
    /\ lastError = Undefined
    /\ rresult = NoResult
    /\ events = <<>>

NextApiClient ==
    /\ UNCHANGED <<breakerVars, adminVars, otherVars>>
    /\ \/ RetryStart
       \/ \E response \in Responses : ApiFetch(response)
       \/ RetryWake

SpecApiClient == InitApiClient /\ [][NextApiClient]_vars

\* the responses received so far that were not ok, in order
FailedResponses == [i \in DOMAIN Rejected |-> Rejected[i].arg.from]

RetryableStatus(n) == (500 <= n /\ n <= 599) \/ n = 429

\* the error raised carries status and body of the response
Carries(err, response) ==
    err.status = response.status /\ err.body = response.body

\* C28 (as claimed): with the default policy of ApiClient, a request whose
\* responses all have status 5xx or 429 is sent exactly 3 times, a request
\* whose response has status 401, 403 or another 4xx except 429 is sent
\* exactly once, and the error raised carries the status and the body of
\* the last response.
C28_ApiClientRetryPolicy ==
    (RetryDone /\ rresult.kind = "error" /\ Len(Rejected) = FnCalls) =>
        LET sent == FnCalls
            last == FailedResponses[sent]
        IN  /\ (\A i \in 1..sent : RetryableStatus(FailedResponses[i].status)) =>
                  sent = 3 /\ Carries(rresult.val, last)
            /\ ClientErrorStatus(FailedResponses[1].status) =>
                  sent = 1 /\ Carries(rresult.val, last)

(***************************************************************************)
(* What a caller can see of a rejection.  The operation may raise any      *)
(* Error, one with the text of the breaker's own rejection included (an    *)
(* operation that itself calls through an open breaker of the same name    *)
(* raises exactly that).                                                   *)
(***************************************************************************)
\* new Error(message) raised by the operation, with the breaker's text
ImitatedOpenError == [kind |-> "error", val |-> OpenError.val, origin |-> "fn"]

OperationOutcomes == FnOutcomes \cup {ImitatedOpenError}

InitErrors == InitWith(AdminOptions) /\ RetryIdle /\ AdminIdle /\ OtherIdle

NextErrors ==
    /\ UNCHANGED <<retryVars, adminVars, otherVars>>
    /\ \/ calls < MaxErrorCalls /\ GetStateStep(1)
       \/ RecordGet(1)
       \/ RecordPut(1)
       \/ ResetPut(1)
       \/ \E out \in OperationOutcomes : FnSettle(1, out)
       \/ FinalPut(1)
       \/ \E d \in TickDurations : Tick(d)

SpecErrors == InitErrors /\ [][NextErrors]_vars

\* the rejected value as the caller receives it: an Error and its message;
\* origin is history
Observable(out) == [kind |-> out.kind, val |-> out.val]

\* C29 (as claimed): from the rejected value alone a caller can tell a
\* circuit-open rejection from an error raised by the wrapped operation:
\* a call that rejects with what the breaker raises when OPEN did not
\* invoke its operation.
C29_OpenRejectionDistinct ==
    \A p \in Procs :
        (pc[p] = "done" /\ Observable(result[p]) = Observable(OpenError)) =>
            result[p].origin = "breaker" /\ invoked[p] = 0

\* C30: for every snapshot s that execute, trip or reset writes, optional
\* lastFailureTime and nextRetryTime present or absent, reading the state
\* record while it lives returns a snapshot equal to s in every field.
C30_StateRoundTrip ==
    (lastPut.how # "none" /\ StateLive) =>
        \A f \in StateFields : getState[f] = lastPut.rec[f]

\* trip() has written a snapshot with nextRetryTime present and
\* lastFailureTime absent, and the record reads back as written
C30_Witness ==
    /\ PutBy("trip")
    /\ StateLive
    /\ lastPut.rec.nextRetryTime # Undefined
    /\ lastPut.rec.lastFailureTime = Undefined
    /\ getState = lastPut.rec

\* C31: in CLOSED at or above the volume threshold, a successful call that
\* read failures > 0 writes failures = 0 and stays CLOSED; after any counted
\* success the record is CLOSED with failures = 0; and the record is opened
\* from CLOSED only when failureThreshold counted failures have occurred
\* with no counted success between them.
C31_SuccessResetsFailureCount ==
    /\ \A p \in Procs :
          (pc[p] = "done" /\ CountedClosed(p) /\ FnSucceeded(p)) =>
             /\ readState[p].failures > 0 =>
                   /\ Len(stateWrites[p]) = 1
                   /\ LastWrite(p).failures = 0
                   /\ LastWrite(p).state = CLOSED
             /\ Persisted.state = CLOSED
             /\ Persisted.failures = 0
    /\ (PutBy("closedPut") /\ Persisted.state = OPEN) =>
          closedStreak >= cfg.failureThreshold

\* a counted success has followed a run of failures shorter than the
\* threshold and has written failures = 0
C31_Witness ==
    /\ pc[1] = "done"
    /\ CountedClosed(1)
    /\ FnSucceeded(1)
    /\ readState[1].failures > 0
    /\ readState[1].failures < cfg.failureThreshold
    /\ StateLive
    /\ Persisted.failures = 0
    /\ Persisted.state = CLOSED

(***************************************************************************)
(* Concurrent trials.  The configuration carries halfOpenMaxAttempts, as   *)
(* the constructor stores it; no method reads it.  The breaker is opened   *)
(* by calls made one after another; calls that arrive once nextRetryTime   *)
(* of the record is reached run concurrently.  Callers being alike, the    *)
(* one to arrive is the first that is not in flight; the clock is stepped  *)
(* between arrivals, while no call is in flight.                           *)
(***************************************************************************)
\* the constructor, the field execute never reads included
ConstructorWithCap(o) ==
    Constructor(o) @@
    [halfOpenMaxAttempts |-> OrDefault(o.halfOpenMaxAttempts, DefaultHalfOpenMaxAttempts)]

\* halfOpenMaxAttempts 0: not passed
TrialOptions ==
    {[failureThreshold |-> 1, successThreshold |-> MaxSuccessThreshold,
      volumeThreshold |-> 1, timeout |-> 2 * TickMs,
      monitoringPeriod |-> 4 * TickMs, halfOpenMaxAttempts |-> h] :
        h \in {0, 1, 2}}

InitTrials ==
    /\ cfg \in {ConstructorWithCap(o) : o \in TrialOptions}
    /\ BreakerIdle
    /\ RetryIdle /\ AdminIdle /\ OtherIdle

\* the record's nextRetryTime is reached
RetryTimeReached ==
    /\ StateLive
    /\ Persisted.nextRetryTime # Undefined
    /\ now >= Persisted.nextRetryTime

\* a call arrives: alone, or beside others once nextRetryTime is reached
Arrive(p) ==
    /\ calls < MaxTrialCalls
    /\ RetryTimeReached \/ \A q \in Procs : ~InFlight(q)
    /\ \A q \in Procs : q < p => InFlight(q)
    /\ GetStateStep(p)

\* time passes while no call is in flight
QuietTick(d) ==
    /\ \A q \in Procs : ~InFlight(q)
    /\ Tick(d)

NextTrials ==
    /\ UNCHANGED <<retryVars, adminVars, otherVars>>
    /\ \/ \E p \in Procs : Arrive(p)
       \/ \E p \in Procs : RecordGet(p)
       \/ \E p \in Procs : RecordPut(p)
       \/ \E p \in Procs : ResetPut(p)
       \/ \E p \in Procs, out \in FnOutcomes : FnSettle(p, out)
       \/ \E p \in Procs : FinalPut(p)
       \/ \E d \in TickDurations : QuietTick(d)

SpecTrials == InitTrials /\ [][NextTrials]_vars

\* caller p's call has made its check and found the breaker HALF_OPEN, or
\* OPEN with nextRetryTime reached
CheckedAsTrial(p) ==
    /\ pc[p] \notin {"idle", "recordGet", "recordPut"}
    /\ \/ readState[p].state = HALF_OPEN
       \/ /\ readState[p].state = OPEN
          /\ readState[p].nextRetryTime # Undefined
          /\ checkTime[p] >= readState[p].nextRetryTime

\* the calls whose operation is in flight as a trial
TrialsInFlight == {p \in Procs : pc[p] = "halfFn"}

\* C32: whatever halfOpenMaxAttempts is, and however many trials are in
\* flight, a call that finds the breaker HALF_OPEN, or OPEN with
\* nextRetryTime reached, is never rejected by the breaker: it dispatches
\* its operation as one more trial.
C32_TrialsNotCapped ==
    \A p \in Procs :
        CheckedAsTrial(p) =>
            /\ ~ShortCircuited(p)
            /\ pc[p] \in {"resetPut", "halfFn", "halfPut", "done"}
            /\ pc[p] \in {"halfFn", "halfPut", "done"} => invoked[p] = 1

\* with halfOpenMaxAttempts = 1, every caller has its operation in flight
\* as a trial at the same time, the breaker HALF_OPEN
C32_Witness ==
    /\ cfg.halfOpenMaxAttempts = 1
    /\ TrialsInFlight = Procs
    /\ Cardinality(TrialsInFlight) > cfg.halfOpenMaxAttempts
    /\ StateLive
    /\ Persisted.state = HALF_OPEN

(***************************************************************************)
(* ApiClient.request with a shouldRetry the caller may supply.  What the   *)
(* caller's predicate answers for an error is drawn with the error and     *)
(* kept beside it (callerSays) as history.                                 *)
(***************************************************************************)
requestShouldRetry_CallerFirst(err, supplied, says) ==
    IF supplied THEN says
    ELSE apiShouldRetry(err)

\* shouldRetry of request: the status tests, then retryOptions.shouldRetry
\* if the caller supplied one, else true
requestShouldRetry(err, supplied, says) ==
    IF err.status = 401 \/ err.status = 403 THEN FALSE
    ELSE IF err.status # NoStatusCode /\ err.status >= 400 /\ err.status < 500
            /\ err.status # 429
    THEN FALSE
    ELSE IF supplied THEN says
    ELSE TRUE

\* await fetch(...) returns response, and the callback settles on it
ApiFetchWith(response) ==
    IF ok(response)
    THEN RetryFnResolve
    ELSE \E r \in 0..(JitterSteps - 1),
            says \in (IF opts.callerShouldRetry THEN BOOLEAN ELSE {TRUE}) :
             LET e == apiError(response) @@ [callerSays |-> says]
             IN  RetryFnReject(e, requestShouldRetry(e, opts.callerShouldRetry, says), r)

InitApiCustom ==
    /\ InitWith(DefaultBreakerOptions)
    /\ AdminIdle
    /\ OtherIdle
    /\ opts \in {mergeOptions(ApiRetryOptions) @@ [callerShouldRetry |-> c] :
                    c \in BOOLEAN}
    /\ rpc = "start"
    /\ attempt = 0
    /\ lastError = Undefined
    /\ rresult = NoResult
    /\ events = <<>>

NextApiCustom ==
    /\ UNCHANGED <<breakerVars, adminVars, otherVars>>
    /\ \/ RetryStart
       \/ \E response \in Responses : ApiFetchWith(response)
       \/ RetryWake

SpecApiCustom == InitApiCustom /\ [][NextApiCustom]_vars

\* C33: in ApiClient.request an error with status 401, 403 or another 4xx
\* except 429 is answered "no retry" and is never followed by another send,
\* even when the caller's shouldRetry answers true; for every other error
\* the answer is the caller's, and true when the caller supplied none.
C33_CallerPredicateAfterStatus ==
    /\ \A i \in DOMAIN events :
          events[i].ev = "shouldRetry" =>
            LET e == events[i].arg IN
            IF ClientErrorStatus(e.status) THEN ~events[i].ans
            ELSE IF opts.callerShouldRetry THEN events[i].ans = e.callerSays
            ELSE events[i].ans
    /\ \A k \in DOMAIN Rejected :
          ClientErrorStatus(Rejected[k].arg.status) =>
            /\ k = FnCalls
            /\ rpc = "done"
            /\ rresult = rejection(Rejected[k].arg)

\* the caller's shouldRetry would retry a 401, and the request was sent once
C33_Witness ==
    /\ opts.callerShouldRetry
    /\ RetryDone
    /\ FnCalls = 1
    /\ Len(Rejected) = 1
    /\ Rejected[1].arg.status = 401
    /\ Rejected[1].arg.callerSays
    /\ rresult = rejection(Rejected[1].arg)

(***************************************************************************)
(* createRetryableFetch, as configured for the exported retryableFetch,    *)
(* no shouldRetry supplied by the caller.                                  *)
(***************************************************************************)
FetchMaxRetries == 3
FetchInitialDelayMs == 100
FetchMaxDelayMs == 2000

\* { ...defaultOptions, ...retryOptions }, retryOptions not passed
FetchRetryOptions ==
    [maxRetries |-> Num(FetchMaxRetries), initialDelayMs |-> Num(FetchInitialDelayMs),
     maxDelayMs |-> Num(FetchMaxDelayMs), backoffMultiplier |-> Absent,
     onRetry |-> "none"]

FetchStatuses == {200, 404, 429, 500, 502, 503}

\* response.statusText
statusText(n) ==
    CASE n = 200 -> "OK"
      [] n = 404 -> "Not Found"
      [] n = 429 -> "Too Many Requests"
      [] n = 500 -> "Internal Server Error"
      [] n = 502 -> "Bad Gateway"
      [] n = 503 -> "Service Unavailable"
      [] OTHER -> ""

\* String(response.status)
statusDigits(n) ==
    CASE n = 200 -> "200"
      [] n = 404 -> "404"
      [] n = 429 -> "429"
      [] n = 500 -> "500"
      [] n = 502 -> "502"
      [] n = 503 -> "503"
      [] OTHER -> ""

\* Object.assign(new Error(`HTTP ${status}: ${statusText}`), { status })
fetchError(n) ==
    [code |-> NoCode, status |-> n,
     message |-> <<"HTTP ", statusDigits(n), ": ", statusText(n)>>]

\* fetch itself rejecting: TypeError('fetch failed')
FetchFailed == [code |-> NoCode, status |-> NoStatusCode, message |-> <<"fetch failed">>]

\* shouldRetry of retryableFetch, options.shouldRetry not given
fetchShouldRetry(error) ==
    IF error.status >= 400 /\ error.status < 500 THEN FALSE
    ELSE defaultShouldRetry(error)

\* const response = await fetch(input, init): throw on status >= 500, else
\* return response
FetchRespond(n) ==
    IF n >= 500
    THEN \E r \in 0..(JitterSteps - 1) :
             RetryFnReject(fetchError(n), fetchShouldRetry(fetchError(n)), r)
    ELSE RetryFnResolve

\* await fetch(input, init) rejects
FetchReject ==
    \E r \in 0..(JitterSteps - 1) :
        RetryFnReject(FetchFailed, fetchShouldRetry(FetchFailed), r)

InitRetryableFetch ==
    /\ InitWith(DefaultBreakerOptions)
    /\ AdminIdle
    /\ OtherIdle
    /\ opts = mergeOptions(FetchRetryOptions)
    /\ rpc = "start"
    /\ attempt = 0
    /\ lastError = Undefined
    /\ rresult = NoResult
    /\ events = <<>>

NextRetryableFetch ==
    /\ UNCHANGED <<breakerVars, adminVars, otherVars>>
    /\ \/ RetryStart
       \/ \E n \in FetchStatuses : FetchRespond(n)
       \/ FetchReject
       \/ RetryWake

SpecRetryableFetch == InitRetryableFetch /\ [][NextRetryableFetch]_vars

\* C34 (as claimed): through retryableFetch with no shouldRetry supplied,
\* every response with a status of 500 or above is thrown and followed by
\* another attempt until maxRetries attempts are used, and a response with
\* a status below 500 is returned at once and ends the call.
C34_ServerErrorsRetried ==
    RetryDone =>
        /\ \A k \in DOMAIN Rejected :
              Rejected[k].arg.status >= 500 => (k < FnCalls \/ k = N)
        /\ \A i \in DOMAIN events :
              events[i].ev = "resolved" => (i = Len(events) /\ rresult.kind = "value")

(***************************************************************************)
(* execute, trip and reset of breakers of one name and one configuration,  *)
(* all running at once: the callers are request tasks, trip and reset an   *)
(* administrative task, and every await is a point where another task may  *)
(* run or the records may expire.  Of the callers not in flight the first  *)
(* arrives next (they are interchangeable); the clock advances by the      *)
(* cool-down, and the records live for two cool-downs.  recordRequest      *)
(* touches only the request counter, which with volumeThreshold 1 decides  *)
(* nothing: a caller inside it runs to its end before another task steps.  *)
(* Tasks interleave freely at one instant; the clock advances, and records *)
(* expire, while at most one task is in flight.                            *)
(***************************************************************************)
MixedOptions ==
    {[failureThreshold |-> MaxFailureThreshold, successThreshold |-> MaxSuccessThreshold,
      volumeThreshold |-> 1, timeout |-> 2 * TickMs, monitoringPeriod |-> 4 * TickMs]}

InitMixed == InitWith(MixedOptions) /\ RetryIdle /\ AdminIdle /\ OtherIdle

\* execute(fn) called
MixedArrive(p) ==
    /\ calls < MaxMixedCalls
    /\ \A q \in Procs : q < p => InFlight(q)
    /\ GetStateStep(p)

\* reset(), whatever the callers are doing
ResetAnytime ==
    /\ apc = "idle"
    /\ adminOps < MaxMixedAdminOps
    /\ adminOps' = adminOps + 1
    /\ adminPut("reset", resetState)
    /\ adminPrior' = Persisted
    /\ UNCHANGED <<apc, ast, adminAt>>

\* trip(): const state = await this.getState(), whatever the callers are doing
TripGetAnytime ==
    /\ apc = "idle"
    /\ adminOps < MaxMixedAdminOps
    /\ adminOps' = adminOps + 1
    /\ apc' = "tripPut"
    /\ ast' = getState
    /\ adminAt' = now
    /\ adminPrior' = Persisted
    /\ UNCHANGED breakerVars

\* no caller is inside recordRequest
NoneCounting == \A q \in Procs : pc[q] \notin {"recordGet", "recordPut"}

\* the tasks in flight: callers inside execute, and trip between its read
\* and its write
TasksInFlight ==
    Cardinality({q \in Procs : InFlight(q)}) + (IF apc = "idle" THEN 0 ELSE 1)

\* time passes while at most one task is in flight
LoneTick == TasksInFlight <= 1 /\ Tick(cfg.timeout)

NextMixed ==
    \/ /\ UNCHANGED <<retryVars, adminVars, otherVars>>
       /\ \/ \E p \in Procs : RecordGet(p)
          \/ \E p \in Procs : RecordPut(p)
    \/ /\ NoneCounting
       /\ UNCHANGED <<retryVars, adminVars, otherVars>>
       /\ \/ \E p \in Procs : MixedArrive(p)
          \/ \E p \in Procs : ResetPut(p)
          \/ \E p \in Procs, out \in FnOutcomes : FnSettle(p, out)
          \/ \E p \in Procs : FinalPut(p)
          \/ LoneTick
    \/ /\ NoneCounting
       /\ UNCHANGED <<retryVars, otherVars>>
       /\ \/ ResetAnytime
          \/ TripGetAnytime
          \/ TripPut

SpecMixed == InitMixed /\ [][NextMixed]_vars

\* the last record put under the state key, whoever put it
Written == lastPut.rec
SomethingWritten == lastPut.how # "none"

ShapeOk(rec) ==
    /\ rec.state = CLOSED => rec.failures < cfg.failureThreshold
    /\ rec.state = HALF_OPEN => rec.consecutiveSuccesses < cfg.successThreshold
    /\ rec.state = OPEN => rec.nextRetryTime # Undefined

\* C35: every state record written by execute, trip or reset, under any
\* interleaving of callers sharing one configuration, has failures below
\* failureThreshold if it is CLOSED, consecutiveSuccesses below
\* successThreshold if it is HALF_OPEN, and a nextRetryTime if it is OPEN;
\* and so has the record the store holds.
C35_WrittenRecordsWellFormed ==
    /\ SomethingWritten => ShapeOk(Written)
    /\ ShapeOk(Persisted)

\* the record last written is trip's, OPEN with a retry time, one caller
\* having completed a call that wrote a record and another being in flight
C35_Witness ==
    /\ lastPut.how = "trip"
    /\ Written.state = OPEN
    /\ Written.nextRetryTime # Undefined
    /\ \E p \in Procs : Len(stateWrites[p]) > 0 /\ pc[p] = "done"
    /\ \E p \in Procs : InFlight(p)

CountsOk(rec) ==
    /\ 0 <= rec.failures
    /\ rec.failures <= rec.totalRequests

\* C36: in every state record persisted through execute, trip, reset and
\* record expiry, under any interleaving of concurrent callers,
\* 0 <= failures <= totalRequests, so that the failure rate getStatus
\* reports (in hundredths) is between 0 and 100.
C36_FailuresWithinRequests ==
    /\ CountsOk(Persisted)
    /\ SomethingWritten => CountsOk(Written)
    /\ getStatusOf(Persisted).metrics.failureRate \in 0..100

\* two callers failed on the same read, so that one failure was counted,
\* and trip then rewrote the record: failures = totalRequests, rate 1
C36_Witness ==
    /\ StateLive
    /\ lastPut.how = "trip"
    /\ \A p \in Procs : pc[p] = "done" /\ result[p].kind = "error" /\ invoked[p] = 1
    /\ Persisted.failures = 1
    /\ Persisted.totalRequests = 1
    /\ failureRate(Persisted) = 100

(***************************************************************************)
(* What the read-only paths leave alone.                                   *)
(***************************************************************************)
\* caller p passed recordRequest having read OPEN, the clock before the
\* record's nextRetryTime
ShortCircuitCase(p) ==
    /\ checkTime[p] # Undefined
    /\ readState[p].state = OPEN
    /\ readState[p].nextRetryTime # Undefined
    /\ checkTime[p] < readState[p].nextRetryTime

\* caller p passed recordRequest having read CLOSED, its count below
\* volumeThreshold
PassThroughCase(p) ==
    /\ checkTime[p] # Undefined
    /\ readState[p].state = CLOSED
    /\ requestCount[p] < cfg.volumeThreshold

\* the step is one of caller p's call, which is or becomes of such a case
QuietStep(p) ==
    /\ pc'[p] # pc[p]
    /\ ShortCircuitCase(p)' \/ PassThroughCase(p)'
    /\ checkTime'[p] # Undefined

\* the step in which caller p returns from recordRequest
CountStep(p) == pc[p] = "recordPut" /\ pc'[p] # "recordPut"

\* C37: getStatus writes nothing to the store; a call short-circuited in
\* OPEN before nextRetryTime and a call passed through below volumeThreshold
\* put the request counter and nothing else: no step of theirs changes the
\* state record, and they end having written no state record (the first
\* without invoking the operation, the second having invoked it once).
C37_ReadOnlyPathsLeaveState ==
    [][/\ GetStatus => kv' = kv
       /\ \A p \in Procs :
             QuietStep(p) =>
                /\ kv'[getStateKey] = kv[getStateKey]
                /\ lastPut' = lastPut
                /\ stateWrites'[p] = <<>>
                /\ CountStep(p) =>
                      /\ kv'[getRequestsKey].live
                      /\ parseInt(kv'[getRequestsKey].val) = requestCount'[p]
                /\ ~CountStep(p) => kv' = kv
                /\ ShortCircuitCase(p)' => (pc'[p] = "done" /\ ShortCircuited(p)')
                /\ PassThroughCase(p)' => (pc'[p] \in {"passFn", "done"} /\ invoked'[p] = 1)
      ]_vars

\* getStatus was called, and a short-circuited call has ended with the
\* state record OPEN as it read it
C37_Witness ==
    /\ status # NoStatus
    /\ pc[1] = "done"
    /\ ShortCircuitCase(1)
    /\ ShortCircuited(1)
    /\ stateWrites[1] = <<>>
    /\ StateLive
    /\ Persisted = readState[1]
    /\ Counter = requestCount[1]

(***************************************************************************)
(* Recovery.  One caller calls execute again and again, each call at a     *)
(* later instant than the one before; time passes, up to a horizon; every  *)
(* await of a call returns.  The operation succeeds whenever it is invoked *)
(* at or after the nextRetryTime of the caller's record.  The horizon is   *)
(* the model's: the operation fails, and a call in flight is delayed, only *)
(* while the horizon leaves room for a cool-down and successThreshold      *)
(* record lifetimes after it.                                              *)
(***************************************************************************)
RecoveryOptions ==
    {[failureThreshold |-> 1, successThreshold |-> s, volumeThreshold |-> 1,
      timeout |-> 2 * TickMs, monitoringPeriod |-> 4 * TickMs] :
        s \in {1, MaxSuccessThreshold}}

InitRecovery == InitWith(RecoveryOptions) /\ RetryIdle /\ AdminIdle /\ OtherIdle

\* the operation is invoked at or after the nextRetryTime of p's record
AtOrAfterRetryTime(p) ==
    /\ st[p].nextRetryTime # Undefined
    /\ now >= st[p].nextRetryTime

RecoveryRoom(t) ==
    t + cfg.timeout + cfg.successThreshold * expirationTtl * MsPerSecond <= HorizonMs

\* await fn() settles
RecoveryFnSettle(out) ==
    /\ out.kind = "error" => (~AtOrAfterRetryTime(1) /\ RecoveryRoom(now))
    /\ FnSettle(1, out)

\* the next execute(fn) of the caller
RecoveryArrive ==
    /\ pc[1] = "idle" \/ now > checkTime[1]
    /\ GetStateStep(1)

CallerStep ==
    /\ UNCHANGED <<retryVars, adminVars, otherVars>>
    /\ \/ RecoveryArrive
       \/ RecordGet(1)
       \/ RecordPut(1)
       \/ ResetPut(1)
       \/ \E out \in FnOutcomes : RecoveryFnSettle(out)
       \/ FinalPut(1)

TimePasses ==
    /\ UNCHANGED <<retryVars, adminVars, otherVars, ticks>>
    /\ \E d \in TickDurations :
          /\ now + d <= HorizonMs
          /\ InFlight(1) => RecoveryRoom(now + d)
          /\ Elapse(d)

NextRecovery == CallerStep \/ TimePasses

SpecRecovery ==
    InitRecovery /\ [][NextRecovery]_vars /\ WF_vars(CallerStep) /\ WF_vars(TimePasses)

\* C38: if execute calls keep arriving one after another and every
\* operation invoked at or after nextRetryTime succeeds, a breaker whose
\* state is OPEN or HALF_OPEN eventually is CLOSED (after the cool-down and
\* successThreshold successful trials, or by expiry of its record).
C38_OpenEventuallyCloses ==
    (Persisted.state # CLOSED) ~> (Persisted.state = CLOSED)

\* the breaker opened and was closed by its second successful trial
C38_Witness ==
    /\ cfg.successThreshold = 2
    /\ StateLive
    /\ lastPut.how = "halfPut"
    /\ Persisted.state = CLOSED
    /\ Persisted.failures = 0
    /\ Persisted.successes >= 2
    /\ Persisted.nextRetryTime # Undefined
    /\ now >= Persisted.nextRetryTime

\* C39 (as claimed): whatever options withRetry is called with, maxRetries
\* of 0, negative or explicitly undefined included, the operation is invoked
\* at least once, and a rejection carries an error that an invocation of
\* the operation raised.
C39_InvokedAtLeastOnce ==
    RetryDone =>
        /\ FnCalls >= 1
        /\ rresult.kind = "error" =>
              \E k \in DOMAIN Rejected : Rejected[k].arg = rresult.val

====
